---- MODULE Spec2Model ----
(***************************************************************************)
(* A model of the autojs web-automation extension:                         *)
(*   - the Executor (sequential, interruptible instruction runner),        *)
(*   - the instruction catalog (Validate / Delay / ExecuteWithRetry and    *)
(*     the type-specific bodies),                                          *)
(*   - the dispatcher: its instruction queue kept in extension storage,    *)
(*     the sweep of old entries, the connection registry, the periodic     *)
(*     cycle (login, fetch, notify), and the queue operations as they      *)
(*     interleave,                                                         *)
(*   - the runtime.onMessage listeners of both sides.                      *)
(* Each subsystem has its own specification over its own variables; the    *)
(* variables of the other subsystems keep their initial values.            *)
(***************************************************************************)
EXTENDS Integers, Sequences, FiniteSets, TLC

VARIABLES
    \* ---- Executor (core/Executor.ts) ----
    instructions,   \* Executor.instructions : sequence of [type, id]
    results,        \* Executor.results : a JS array, [length, items]
    isRunning,      \* Executor.isRunning
    currentIndex,   \* Executor.currentIndex
    loopPc,         \* position of an executeAll call: "idle" | "awaiting"
    loopI,          \* the loop variable i of executeAll (0-based; 0 when no call is in flight)
    singlePc,       \* position of an executeInstruction call: "idle" | "awaiting"
    singleIdx,      \* the index argument of the executeInstruction in flight (else 0)
    execLog,        \* indices whose execute() the last Executor call (pause and stop
                    \* aside) has invoked
    ret,            \* what the last Executor call to return has returned
    interrupts,     \* history: which of pause/stop arrived during the executeAll run
                    \* in flight or returned last
    \* ---- dispatcher instruction queue (entrypoints/background.ts) ----
    storage,        \* browser.storage.local : key -> value, for the keys that are set
    response,       \* the last value a queue operation handed back to its caller
    dateNow,        \* Date.now() in the dispatcher, in the unit of created_at
    connections,    \* connection registry: target -> ConnectionRecord, for the registered targets
    inflight,       \* the queue operation suspended between its storage get and its
                    \* storage set: what it is and the list it is about to write
    trail,          \* history: the entries handed to addInstructions so far, and the
                    \* entries the drains have returned, in order
    \* ---- dispatcher periodic cycle (entrypoints/background.ts) ----
    authToken,      \* the cached credential, NullToken when none
    tabCount,       \* the number of tabs of the window; tab indices 0..tabCount-1 exist
    cycles,         \* per cycle: its position, its loop's remaining indices, and
                    \* the history of what it did since it began
    lastStep,       \* the last step of a cycle: which, what happened, the request it
                    \* sent (if any) and the credential that request carried
    \* ---- execution context: the drain loops a notify starts (content.ts) ----
    drains,         \* per loop of executeTaskFromBackground: its position, and the
                    \* instruction it executes with the index it was added at
    drainLog,       \* history: the tab of the context, the entries its loops have
                    \* pulled and those whose execution they have started, in
                    \* order, and what has happened since the last notify
    \* ---- messaging (runtime.onMessage listeners) ----
    channel,        \* the request a listener received last: who received it, its
                    \* action, the promise its handler still waits for, and the
                    \* success flags of the responses sent so far, in order
    \* ---- execution context: the page side of the catalog ----
    visibleWait,    \* one WaitForElementVisible call: its timers, its isResolved
                    \* flag, the time, and the resolve/reject calls made so far
    polling,        \* the polling loops of one Wait: how many times the condition
                    \* was evaluated, whether an evaluation threw, whether one
                    \* answered true
    descriptor,     \* one Element: its selector type, its cached handle `dom`, and
                    \* the last method called on it with what its resolution found
    manager,        \* one ElementManager: its map `elements` (name -> descriptor),
                    \* and history: the descriptors handed to setElement so far,
                    \* per name the one set last and not removed since, the names
                    \* removed and not set since, and the last call
    drag,           \* one Drag: the attempt of the retry runner in flight, its
                    \* position in the drag protocol, the source's draggable and
                    \* user-select values, the values saved by the attempt, and
                    \* the listeners installed on the destination and the document
    parser,         \* one serializeInstructions / loadAndExecuteInstructions round:
                    \* the module the instruction classes come from, the list
                    \* serialized, the document, and the list parsed from it
    \* ---- instruction catalog (one Execute() call of one instruction) ----
    inst,           \* the instruction object: its own fields after construction
    execPc,         \* position of Execute: "ready" | "body" | "done"
    attempts,       \* how each invocation of the body by ExecuteWithRetry ended, in order
    delays,         \* the sleeps of Delay(), in seconds, in order
    clock,          \* Date.now() - startTime, in units of 100 ms
    elapsed,        \* Date.now() - startTime of the polling loop in flight (100 ms units)
    events,         \* what the instruction did to the page: events dispatched, in order
    location,       \* window.location.href
    registry,       \* elementManager: the names of the registered elements
    lastRect,       \* the rectangle the last GetBoundingRect() returned
    execResult      \* the ExecutionResult that Execute resolved with

executorVars == <<instructions, results, isRunning, currentIndex, loopPc, loopI,
                  singlePc, singleIdx, execLog, ret, interrupts>>

queueVars == <<storage, response, dateNow>>

registryVars == <<connections>>

raceVars == <<inflight, trail>>

messagingVars == <<channel>>

drainVars == <<drains, drainLog>>

cycleVars == <<authToken, tabCount, cycles, lastStep>>

pageVars == <<visibleWait, polling, descriptor, manager, drag, parser>>

catalogVars == <<inst, execPc, attempts, delays, clock, elapsed, events, location,
                 registry, lastRect, execResult>>

vars == <<executorVars, queueVars, registryVars, raceVars, cycleVars, messagingVars,
          drainVars, pageVars, catalogVars>>

\* What an operation of one subsystem leaves alone.
nonExecutorVars ==
    <<queueVars, registryVars, raceVars, cycleVars, messagingVars, drainVars, pageVars,
      catalogVars>>
nonQueueVars ==
    <<executorVars, registryVars, raceVars, cycleVars, messagingVars, drainVars, pageVars,
      catalogVars>>
nonCatalogVars ==
    <<executorVars, queueVars, registryVars, raceVars, cycleVars, messagingVars, drainVars,
      pageVars>>
nonDispatcherVars == <<executorVars, messagingVars, drainVars, pageVars, catalogVars>>
nonPageVars ==
    <<executorVars, queueVars, registryVars, raceVars, cycleVars, messagingVars, drainVars,
      catalogVars>>

----------------------------------------------------------------------------
(* Bounds *)

MaxInstructions == 2
MaxQueue == 3
MaxTab == 1
MaxRetry == 2
MaxClock == 2
MaxElements == 3

----------------------------------------------------------------------------
(* JS arrays: `length` plus the own index properties that are present.     *)
(* Assigning past the end leaves holes; filter/reduce skip holes.          *)

EmptyArray == [length |-> 0, items |-> [i \in {} |-> 0]]

ArrayPush(a, r) == [length |-> a.length + 1, items |-> (a.length :> r) @@ a.items]

ArrayAssign(a, i, r) ==
    [length |-> IF i >= a.length THEN i + 1 ELSE a.length,
     items  |-> (i :> r) @@ a.items]

RECURSIVE SumDurations(_, _)
SumDurations(items, dom) ==
    IF dom = {} THEN 0
    ELSE LET i == CHOOSE j \in dom : TRUE
         IN  items[i].duration + SumDurations(items, dom \ {i})

----------------------------------------------------------------------------
(* Executor *)

InstructionTypes == {"navigate", "click"}
InstructionIds == {"a", "b"}
ExecutorInstructions == [type : InstructionTypes, id : InstructionIds]

\* What `await instruction.execute()` can do: resolve with a success result,
\* resolve with a failure result, or reject.
Outcomes == {"success", "failure", "throw"}
\* Date.now() - startTime of a result: zero or not.
Durations == {0, 1}

\* The ExecutionResult an instruction resolves with.
ExecutionResultOf(instruction, outcome, d) ==
    [instructionID |-> instruction.id,
     success       |-> (outcome = "success"),
     error         |-> IF outcome = "success" THEN "none" ELSE "failed",
     duration      |-> d]

\* The errorResult built in the catch blocks.
ErrorResult(instruction) ==
    [instructionID |-> instruction.id, success |-> FALSE,
     error |-> "thrown", duration |-> 0]

ResultFor(instruction, outcome, d) ==
    IF outcome = "throw" THEN ErrorResult(instruction)
    ELSE ExecutionResultOf(instruction, outcome, d)

\* filter visits only the indices that are present.
getSuccessCount(rs) == Cardinality({i \in DOMAIN rs.items : rs.items[i].success})
getFailureCount(rs) == Cardinality({i \in DOMAIN rs.items : ~rs.items[i].success})
getTotalDuration(rs) == SumDurations(rs.items, DOMAIN rs.items)

\* successRate and averageDuration are quotients; they are kept as
\* <<numerator, denominator>> so that no rounding is introduced.
getStatistics(rs) ==
    LET total == rs.length
        success == getSuccessCount(rs)
        failure == getFailureCount(rs)
        totalDuration == getTotalDuration(rs)
    IN  [total |-> total, success |-> success, failure |-> failure,
         successRate |-> IF total > 0 THEN <<success * 100, total>> ELSE <<0, 1>>,
         totalDuration |-> totalDuration,
         averageDuration |-> IF total > 0 THEN <<totalDuration, total>> ELSE <<0, 1>>]

ExecutorInit ==
    /\ instructions \in {<<>>} \cup {<<x>> : x \in ExecutorInstructions}
    /\ results = EmptyArray
    /\ isRunning = FALSE
    /\ currentIndex = 0
    /\ loopPc = "idle"
    /\ loopI = 0
    /\ singlePc = "idle"
    /\ singleIdx = 0
    /\ execLog = <<>>
    /\ ret = "none"
    /\ interrupts = {}

\* No asynchronous Executor call is in flight: the caller awaits each
\* asynchronous call before it issues the next one (pause and stop excepted).
CallerIdle == loopPc = "idle" /\ singlePc = "idle"

addInstruction(instruction) ==
    /\ CallerIdle
    /\ Len(instructions) < MaxInstructions
    /\ instructions' = Append(instructions, instruction)
    /\ execLog' = <<>>
    /\ ret' = "void"
    /\ interrupts' = {}
    /\ UNCHANGED <<results, isRunning, currentIndex, loopPc, loopI, singlePc, singleIdx>>
    /\ UNCHANGED nonExecutorVars

clearInstructions ==
    /\ CallerIdle
    /\ instructions' = <<>>
    /\ results' = EmptyArray
    /\ currentIndex' = 0
    /\ execLog' = <<>>
    /\ ret' = "void"
    /\ interrupts' = {}
    /\ UNCHANGED <<isRunning, loopPc, loopI, singlePc, singleIdx>>
    /\ UNCHANGED nonExecutorVars

\* Mutant: the loop head without the isRunning check.
LoopHeadIgnoresIsRunning(i, running, rs, lg) ==
    IF i < Len(instructions)
    THEN /\ currentIndex' = i
         /\ loopI' = i
         /\ loopPc' = "awaiting"
         /\ execLog' = Append(lg, i)
         /\ isRunning' = running
         /\ results' = rs
         /\ ret' = ret
    ELSE /\ loopPc' = "idle"
         /\ isRunning' = FALSE
         /\ results' = rs
         /\ execLog' = lg
         /\ ret' = "results"
         /\ loopI' = 0
         /\ UNCHANGED currentIndex

\* The head of the for loop of executeAll, entered with loop variable i, array
\* rs and log lg, up to the next `await instruction.execute()` or to the
\* return: the bound check, the isRunning check, currentIndex = i.
LoopHead(i, running, rs, lg) ==
    IF i < Len(instructions) /\ running
    THEN /\ currentIndex' = i
         /\ loopI' = i
         /\ loopPc' = "awaiting"
         /\ execLog' = Append(lg, i)
         /\ isRunning' = running
         /\ results' = rs
         /\ ret' = ret
    ELSE /\ loopPc' = "idle"
         /\ isRunning' = FALSE
         /\ results' = rs
         /\ execLog' = lg
         /\ ret' = "results"
         /\ loopI' = 0
         /\ UNCHANGED currentIndex

\* Mutant: no `break` after a successful navigate.
LoopBreakContinues(rs) == LoopHead(loopI + 1, isRunning, rs, execLog)

\* The exit taken by `break` after a successful navigate.
LoopBreak(rs) ==
    /\ loopPc' = "idle"
    /\ isRunning' = FALSE
    /\ results' = rs
    /\ ret' = "results"
    /\ loopI' = 0
    /\ UNCHANGED <<currentIndex, execLog>>

executeAll ==
    /\ CallerIdle
    /\ \/ /\ Len(instructions) > 0
          /\ currentIndex' = 0
          /\ loopI' = 0
          /\ loopPc' = "awaiting"
          /\ execLog' = <<0>>
          /\ isRunning' = TRUE
          /\ results' = EmptyArray
          /\ ret' = ret
       \/ /\ Len(instructions) = 0
          /\ currentIndex' = 0
          /\ loopI' = 0
          /\ loopPc' = "idle"
          /\ execLog' = <<>>
          /\ isRunning' = FALSE
          /\ results' = EmptyArray
          /\ ret' = "results"
    /\ interrupts' = {}
    /\ UNCHANGED <<instructions, singlePc, singleIdx>>
    /\ UNCHANGED nonExecutorVars

\* Mutant: executeAll without the try/catch, so that a rejected execute()
\* rejects executeAll itself.
executeAllResumeNoCatch(outcome, d) ==
    /\ loopPc = "awaiting"
    /\ LET instruction == instructions[loopI + 1]
           rs == ArrayPush(results, ResultFor(instruction, outcome, d))
       IN  IF outcome = "throw"
           THEN /\ loopPc' = "idle"
                /\ loopI' = 0
                /\ ret' = "rejected"
                /\ UNCHANGED <<results, isRunning, currentIndex, execLog>>
           ELSE IF outcome = "success" /\ instruction.type = "navigate"
           THEN LoopBreak(rs)
           ELSE LoopHead(loopI + 1, isRunning, rs, execLog)
    /\ UNCHANGED <<instructions, singlePc, singleIdx, interrupts>>
    /\ UNCHANGED nonExecutorVars

\* executeAll resumes from `await instruction.execute()` of instruction loopI.
executeAllResume(outcome, d) ==
    /\ loopPc = "awaiting"
    /\ LET instruction == instructions[loopI + 1]
           rs == ArrayPush(results, ResultFor(instruction, outcome, d))
       IN  IF outcome = "success" /\ instruction.type = "navigate"
           THEN LoopBreak(rs)
           ELSE LoopHead(loopI + 1, isRunning, rs, execLog)
    /\ UNCHANGED <<instructions, singlePc, singleIdx, interrupts>>
    /\ UNCHANGED nonExecutorVars

executeInstruction(index) ==
    /\ CallerIdle
    /\ IF index < 0 \/ index >= Len(instructions)
       THEN /\ ret' = "null"
            /\ execLog' = <<>>
            /\ UNCHANGED <<singlePc, singleIdx>>
       ELSE /\ singlePc' = "awaiting"
            /\ singleIdx' = index
            /\ execLog' = <<index>>
            /\ ret' = ret
    /\ interrupts' = {}
    /\ UNCHANGED <<instructions, results, isRunning, currentIndex, loopPc, loopI>>
    /\ UNCHANGED nonExecutorVars

\* executeInstruction as it would be if it appended its result.
executeInstructionResumePushes(outcome, d) ==
    /\ singlePc = "awaiting"
    /\ results' = ArrayPush(results, ResultFor(instructions[singleIdx + 1], outcome, d))
    /\ singlePc' = "idle"
    /\ singleIdx' = 0
    /\ ret' = "result"
    /\ UNCHANGED <<instructions, isRunning, currentIndex, loopPc, loopI, execLog,
                   interrupts>>
    /\ UNCHANGED nonExecutorVars

executeInstructionResume(outcome, d) ==
    /\ singlePc = "awaiting"
    /\ results' = ArrayAssign(results, singleIdx,
                              ResultFor(instructions[singleIdx + 1], outcome, d))
    /\ singlePc' = "idle"
    /\ singleIdx' = 0
    /\ ret' = "result"
    /\ UNCHANGED <<instructions, isRunning, currentIndex, loopPc, loopI, execLog,
                   interrupts>>
    /\ UNCHANGED nonExecutorVars

pause ==
    /\ isRunning' = FALSE
    /\ interrupts' = IF loopPc = "awaiting" THEN interrupts \cup {"pause"} ELSE interrupts
    /\ ret' = IF CallerIdle THEN "void" ELSE ret
    /\ UNCHANGED <<instructions, results, currentIndex, loopPc, loopI, singlePc,
                   singleIdx, execLog>>
    /\ UNCHANGED nonExecutorVars

stop ==
    /\ isRunning' = FALSE
    /\ currentIndex' = 0
    /\ interrupts' = IF loopPc = "awaiting" THEN interrupts \cup {"stop"} ELSE interrupts
    /\ ret' = IF CallerIdle THEN "void" ELSE ret
    /\ UNCHANGED <<instructions, results, loopPc, loopI, singlePc, singleIdx, execLog>>
    /\ UNCHANGED nonExecutorVars

ExecutorNext ==
    \/ \E x \in ExecutorInstructions : addInstruction(x)
    \/ clearInstructions
    \/ executeAll
    \/ \E o \in Outcomes, d \in Durations : executeAllResume(o, d)
    \/ \E i \in -1..MaxInstructions : executeInstruction(i)
    \/ \E o \in Outcomes, d \in Durations : executeInstructionResume(o, d)
    \/ pause
    \/ stop

----------------------------------------------------------------------------
(* Instruction catalog: one Execute() call of one instruction object.      *)
(* Time is counted in units of 100 ms, the polling interval.               *)

TicksPerSecond == 10
PollTicks == 1
SettleTicks == 2
RetryWait == 1

Max(a, b) == IF a >= b THEN a ELSE b

Kinds == {"navigate", "locate", "click", "input_text", "wait"}
Ids == {"", "a"}
Delays == {0, 1}
Offsets == {<<0, 0>>, <<5, 5>>, <<-3, 2>>}
Rects == {[left |-> 10, top |-> 20, width |-> 100, height |-> 50],
          [left |-> 0, top |-> 0, width |-> 3, height |-> 1]}
NoRect == [left |-> 0, top |-> 0, width |-> 0, height |-> 0]
NoError == "none"

\* An object with every field the modelled classes declare; the fields a
\* class does not declare keep the value given here.
Blank ==
    [kind |-> "", type |-> "", id |-> "", delay |-> 0, retry |-> 0, timeout |-> 1,
     waitVisible |-> FALSE, url |-> "", element |-> "", elementName |-> "",
     clickType |-> "single", offsetX |-> 0, offsetY |-> 0, text |-> <<>>,
     clearFirst |-> FALSE, waitType |-> "", valueDefined |-> FALSE, value |-> 0,
     timeoutDefined |-> TRUE]

\* BaseInstructionImpl's constructor: type, id, delay, retry, timeout and
\* waitVisible copied from the config.  `type` is the class's type or empty.
BaseInstructionMembers(k, W) ==
    {[Blank EXCEPT !.kind = k, !.type = t, !.id = i, !.delay = d, !.retry = r,
                   !.waitVisible = w] :
        t \in {"", k}, i \in Ids, d \in Delays, r \in 0..MaxRetry, w \in W}

NavigateInstruction ==
    {[b EXCEPT !.url = u] : b \in BaseInstructionMembers("navigate", {FALSE}), u \in {"", "u"}}

\* The Element constructor throws on a missing name, so a Locate instruction
\* that exists has an element.
LocateElementInstruction ==
    {[b EXCEPT !.element = "e"] : b \in BaseInstructionMembers("locate", {FALSE})}

ClickInstruction ==
    {[b EXCEPT !.elementName = n, !.clickType = c, !.offsetX = o[1], !.offsetY = o[2]] :
        b \in BaseInstructionMembers("click", BOOLEAN), n \in {"", "e"},
        c \in {"single", "double"}, o \in Offsets}

InputTextInstruction ==
    {[b EXCEPT !.elementName = n, !.text = <<"x">>, !.clearFirst = c] :
        b \in BaseInstructionMembers("input_text", BOOLEAN), n \in {"", "e"}, c \in BOOLEAN}

\* value is undefined, 0, 1 or 2.
WaitInstruction ==
    {[b EXCEPT !.waitType = m, !.valueDefined = v[1], !.value = v[2]] :
        b \in BaseInstructionMembers("wait", {FALSE}), m \in {"", "time", "network"},
        v \in {<<FALSE, 0>>, <<TRUE, 0>>, <<TRUE, 1>>, <<TRUE, 2>>}}

CatalogInstructions ==
    NavigateInstruction \cup LocateElementInstruction \cup ClickInstruction
    \cup InputTextInstruction \cup WaitInstruction

\* BaseInstructionImpl.Validate
BaseValidate(i) == i.type # "" /\ i.id # ""

\* What the validation call at the top of each Execute answers.  Click's
\* Execute calls this.Validate(), which ClickInstruction does not override
\* (its own check is the method `validate`); Wait's Execute calls
\* this.validate(), its own.
Validate(i) ==
    CASE i.kind = "navigate"   -> BaseValidate(i) /\ i.url # ""
      [] i.kind = "locate"     -> BaseValidate(i) /\ i.element # ""
      [] i.kind = "click"      -> BaseValidate(i)
      [] i.kind = "input_text" -> BaseValidate(i) /\ i.elementName # ""
      [] i.kind = "wait"       -> BaseValidate(i) /\ i.waitType # "" /\ i.valueDefined

DelayNothing(time) == <<>>

\* Delay(time): the sleeps it makes, in seconds.
\* `const delay_time = time || this.delay; if (delay_time > 0) sleep`
Delay(time) ==
    LET delay_time == IF time # 0 THEN time ELSE inst.delay
    IN  IF delay_time > 0 THEN <<delay_time>> ELSE <<>>

RECURSIVE TicksOf(_)
TicksOf(ds) == IF ds = <<>> THEN 0 ELSE Head(ds) * TicksPerSecond + TicksOf(Tail(ds))

\* `Math.max(1, this.retry || 1)`
maxAttempts(retry) == Max(1, IF retry # 0 THEN retry ELSE 1)

SuccessResult(success, now) ==
    [instructionID |-> inst.id, success |-> success, error |-> NoError, duration |-> now]

\* The catch block of every Execute.
FailureResult(message, now) ==
    [instructionID |-> inst.id, success |-> FALSE, error |-> message, duration |-> now]

NoResult == [instructionID |-> "", success |-> FALSE, error |-> NoError, duration |-> 0]

CatalogInit ==
    /\ inst \in CatalogInstructions
    /\ registry \in SUBSET {"e"}
    /\ execPc = "ready"
    /\ attempts = <<>>
    /\ delays = <<>>
    /\ clock = 0
    /\ elapsed = 0
    /\ events = <<>>
    /\ location = "about:blank"
    /\ lastRect = NoRect
    /\ execResult = NoResult

\* No instruction is being executed.
CatalogIdle ==
    /\ inst = Blank
    /\ registry = {}
    /\ execPc = "idle"
    /\ attempts = <<>>
    /\ delays = <<>>
    /\ clock = 0
    /\ elapsed = 0
    /\ events = <<>>
    /\ location = "about:blank"
    /\ lastRect = NoRect
    /\ execResult = NoResult

\* Execute up to the call of ExecuteWithRetry: validation, then the
\* pre-delay.  Navigate has no retry runner: it assigns window.location.href
\* and returns.
Execute ==
    /\ execPc = "ready"
    /\ IF ~Validate(inst)
       THEN /\ execPc' = "done"
            /\ execResult' = FailureResult("Invalid instruction", clock)
            /\ UNCHANGED <<delays, clock, location>>
       ELSE LET ds == Delay(inst.delay)
                now == clock + TicksOf(ds)
            IN  /\ delays' = delays \o ds
                /\ clock' = now
                /\ IF inst.kind = "navigate"
                   THEN /\ location' = inst.url
                        /\ execPc' = "done"
                        /\ execResult' = SuccessResult(TRUE, now)
                   ELSE /\ execPc' = "body"
                        /\ UNCHANGED <<location, execResult>>
    /\ UNCHANGED <<inst, attempts, elapsed, events, registry, lastRect>>
    /\ UNCHANGED nonCatalogVars

\* ExecuteWithRetry, when fn() resolves: the value is returned at once and
\* Execute builds its result from it.  ds are the sleeps fn made through
\* Delay, ticks the other time it took, evs what it did to the page.
BodyReturns(label, success, ds, ticks, evs, reg, rect) ==
    LET now == clock + TicksOf(ds) + ticks
    IN  /\ attempts' = Append(attempts, label)
        /\ delays' = delays \o ds
        /\ clock' = now
        /\ elapsed' = 0
        /\ events' = events \o evs
        /\ registry' = reg
        /\ lastRect' = rect
        /\ execPc' = "done"
        /\ execResult' = SuccessResult(success, now)
        /\ UNCHANGED <<inst, location>>
        /\ UNCHANGED nonCatalogVars

\* ExecuteWithRetry as it would be if it retried at once, without Delay(1).
BodyThrowsNoWait(message, ticks, evs, rect) ==
    LET i == Len(attempts) + 1
        retrying == i < maxAttempts(inst.retry)
        now == clock + ticks
    IN  /\ attempts' = Append(attempts, message)
        /\ delays' = delays
        /\ clock' = now
        /\ elapsed' = 0
        /\ events' = events \o evs
        /\ lastRect' = rect
        /\ IF retrying
           THEN /\ execPc' = "body"
                /\ UNCHANGED execResult
           ELSE /\ execPc' = "done"
                /\ execResult' = FailureResult(message, now)
        /\ UNCHANGED <<inst, location, registry>>
        /\ UNCHANGED nonCatalogVars

\* ExecuteWithRetry, when attempt i of fn() rejects: Delay(1) and another
\* attempt if i < maxAttempts, else the last error is thrown and the catch
\* block of Execute turns it into a failure result.
BodyThrows(message, ticks, evs, rect) ==
    LET i == Len(attempts) + 1
        retrying == i < maxAttempts(inst.retry)
        ds == IF retrying THEN Delay(RetryWait) ELSE <<>>
        now == clock + ticks + TicksOf(ds)
    IN  /\ attempts' = Append(attempts, message)
        /\ delays' = delays \o ds
        /\ clock' = now
        /\ elapsed' = 0
        /\ events' = events \o evs
        /\ lastRect' = rect
        /\ IF retrying
           THEN /\ execPc' = "body"
                /\ UNCHANGED execResult
           ELSE /\ execPc' = "done"
                /\ execResult' = FailureResult(message, now)
        /\ UNCHANGED <<inst, location, registry>>
        /\ UNCHANGED nonCatalogVars

\* An entry of the page log: an event dispatched on the element, or a call
\* that changes the page (scrollIntoView, focus, clearing the value).
\* Coordinates are kept doubled, so that width / 2 stays an integer.
PageEvent(type, p) == [type |-> type, clientX2 |-> p.x2, clientY2 |-> p.y2]

NoPoint == [x2 |-> 0, y2 |-> 0]

ClickPointNoOffset(rect, offsetX, offsetY) ==
    [x2 |-> 2 * rect.left + rect.width, y2 |-> 2 * rect.top + rect.height]

\* `x = rect.left + rect.width / 2 + this.offsetX`, and y likewise, doubled.
ClickPoint(rect, offsetX, offsetY) ==
    [x2 |-> 2 * rect.left + rect.width + 2 * offsetX,
     y2 |-> 2 * rect.top + rect.height + 2 * offsetY]

\* The events of one click, all with the same mouseEventOptions.
ClickEvents(clickType, p) ==
    LET once == <<PageEvent("mousedown", p), PageEvent("mouseup", p), PageEvent("click", p)>>
    IN  IF clickType = "double"
        THEN once \o once \o <<PageEvent("dblclick", p)>>
        ELSE once

\* `if (this.waitVisible && !element.IsVisible()) { element.ScrollIntoView();
\*  await this.WaitForElementVisible(...) }`: whether it resolved, the time
\* it took and what it did to the page.
VisibleWait(visible, appears) ==
    IF inst.waitVisible /\ ~visible
    THEN [ok    |-> appears,
          ticks |-> IF appears THEN PollTicks ELSE inst.timeout * TicksPerSecond,
          evs   |-> <<PageEvent("scrollIntoView", NoPoint)>>]
    ELSE [ok |-> TRUE, ticks |-> 0, evs |-> <<>>]

\* Locate as it would be if it saved the element whatever Validate answered.
LocateBodyAlwaysRegisters(found) ==
    /\ execPc = "body"
    /\ inst.kind = "locate"
    /\ BodyReturns(IF found THEN "returned true" ELSE "returned false", found, <<>>, 0,
                   <<>>, registry \cup {inst.element}, lastRect)

\* One invocation of the body of LocateElementInstruction.Execute:
\* `return this.element.Validate()`.  It answers false instead of throwing,
\* so the retry runner returns after this one attempt.
LocateBody(found) ==
    /\ execPc = "body"
    /\ inst.kind = "locate"
    /\ BodyReturns(IF found THEN "returned true" ELSE "returned false", found, <<>>, 0,
                   <<>>, IF found THEN registry \cup {inst.element} ELSE registry, lastRect)

\* One invocation of the body of ClickInstruction.Execute.
ClickBody(valid, visible, appears, hasRect, rect) ==
    /\ execPc = "body"
    /\ inst.kind = "click"
    /\ LET w == VisibleWait(visible, appears)
       IN  IF inst.elementName \notin registry
           THEN BodyThrows("element does not exist", 0, <<>>, lastRect)
           ELSE IF ~valid
           THEN BodyThrows("element validation failed", 0, <<>>, lastRect)
           ELSE IF ~w.ok
           THEN BodyThrows("wait for visible timed out", w.ticks, w.evs, lastRect)
           ELSE IF ~hasRect
           THEN BodyThrows("no bounding rect", w.ticks, w.evs, NoRect)
           ELSE BodyReturns("returned", TRUE, <<>>, w.ticks,
                            w.evs \o ClickEvents(inst.clickType,
                                                 ClickPoint(rect, inst.offsetX, inst.offsetY)),
                            registry, rect)

\* keydown, the value change with its input event, keyup: once per character.
RECURSIVE TypeEvents(_)
TypeEvents(text) ==
    IF text = <<>> THEN <<>>
    ELSE <<PageEvent("keydown", NoPoint), PageEvent("input", NoPoint),
           PageEvent("keyup", NoPoint)>> \o TypeEvents(Tail(text))

\* One invocation of the body of InputTextInstruction.Execute.
InputTextBody(valid, visible, appears, editable) ==
    /\ execPc = "body"
    /\ inst.kind = "input_text"
    /\ LET w == VisibleWait(visible, appears)
       IN  IF inst.elementName \notin registry
           THEN BodyThrows("element does not exist", 0, <<>>, lastRect)
           ELSE IF ~valid
           THEN BodyThrows("element validation failed", 0, <<>>, lastRect)
           ELSE IF ~w.ok
           THEN BodyThrows("wait for visible timed out", w.ticks, w.evs, lastRect)
           ELSE IF ~editable
           THEN BodyThrows("not an input element", w.ticks, w.evs, lastRect)
           ELSE BodyReturns("returned", TRUE, <<>>, w.ticks,
                            w.evs \o <<PageEvent("focus", NoPoint)>>
                            \o (IF inst.clearFirst THEN <<PageEvent("clear", NoPoint)>> ELSE <<>>)
                            \o TypeEvents(inst.text)
                            \o <<PageEvent("change", NoPoint)>>,
                            registry, lastRect)

\* One invocation of the body of WaitInstruction.Execute, case 'time':
\* `await this.Delay(this.value)`.
WaitTimeBody ==
    /\ execPc = "body"
    /\ inst.kind = "wait"
    /\ inst.waitType = "time"
    /\ BodyReturns("returned", TRUE, Delay(inst.value), 0, <<>>, registry, lastRect)

NetworkTimeoutThrows ==
    BodyThrows("network wait timed out", 0, <<>>, lastRect)

\* Case 'network', once the loop condition fails: a warning, and
\* `return { success: true }`.
NetworkTimeout ==
    BodyReturns("returned after timeout", TRUE, <<>>, 0, <<>>, registry, lastRect)

\* Case 'network': one evaluation of the loop condition and, inside the
\* loop, one look at the pending resources followed by its sleep.
WaitNetworkPoll(pending) ==
    /\ execPc = "body"
    /\ inst.kind = "wait"
    /\ inst.waitType = "network"
    /\ IF elapsed < inst.timeout * TicksPerSecond
       THEN IF ~pending
            THEN BodyReturns("returned", TRUE, <<>>, SettleTicks, <<>>, registry, lastRect)
            ELSE /\ elapsed' = elapsed + PollTicks
                 /\ clock' = clock + PollTicks
                 /\ UNCHANGED <<inst, execPc, attempts, delays, events, location,
                                registry, lastRect, execResult>>
                 /\ UNCHANGED nonCatalogVars
       ELSE NetworkTimeout

CatalogNext ==
    \/ Execute
    \/ \E found \in BOOLEAN : LocateBody(found)
    \/ \E valid \in BOOLEAN, visible \in BOOLEAN, appears \in BOOLEAN,
          hasRect \in BOOLEAN, rect \in Rects :
            ClickBody(valid, visible, appears, hasRect, rect)
    \/ \E valid \in BOOLEAN, visible \in BOOLEAN, appears \in BOOLEAN,
          editable \in BOOLEAN :
            InputTextBody(valid, visible, appears, editable)
    \/ WaitTimeBody
    \/ \E pending \in BOOLEAN : WaitNetworkPoll(pending)

----------------------------------------------------------------------------
(* Dispatcher: the instruction queue kept under the storage key             *)
(* "instructions", one flat list of {index, instruction, created_at}.       *)

Tabs == 0..MaxTab
Payloads == {"A", "B"}
CreatedAts == {0, 1}
QueueEntries == [index : Tabs, instruction : Payloads, created_at : CreatedAts]

\* What the server sends in one fetch, as handed to addInstructions: one
\* entry or two, with the created_at the server gave them (here 0).
FetchedEntries == {e \in QueueEntries : e.created_at = 0}
Batches ==
    {<<e>> : e \in FetchedEntries} \cup {<<e, f>> : e \in FetchedEntries, f \in FetchedEntries}

\* The `instructions` of a fetch response: none, one, or two (for the same
\* target or for two targets).
FetchedLists ==
    LET es == {e \in FetchedEntries : e.instruction = "A"}
    IN  {<<>>} \cup {<<e>> : e \in es} \cup {<<e, f>> : e \in es, f \in es}

\* browser.storage.local.get(keys): an object holding the requested keys that
\* are set, and nothing else.
StorageGet(keys) == [k \in (keys \cap DOMAIN storage) |-> storage[k]]

\* `result.instructions || []`
InstructionsOrEmpty(result) ==
    IF "instructions" \in DOMAIN result THEN result["instructions"] ELSE <<>>

\* browser.storage.local.set({ instructions: value })
StorageSetInstructions(value) == ("instructions" :> value) @@ storage

\* How many times x occurs in seq.
Occurrences(seq, x) == Len(SelectSeq(seq, LAMBDA y : y = x))

\* The entries queued for target t, in list order.
QueueOf(store, t) ==
    SelectSeq(IF "instructions" \in DOMAIN store THEN store["instructions"] ELSE <<>>,
              LAMBDA e : e.index = t)

NoResponse == [action |-> "none", tab |-> -1, index |-> -1, arg |-> -1, data |-> <<>>]

\* The loops of executeTaskFromBackground that may run at once in one
\* execution context, and a context that has had no notify yet.
DrainIds == {1, 2}
NoInstruction == [type |-> "none", id |-> "none"]
IdleDrain == [pc |-> "idle", idx |-> 0, instruction |-> NoInstruction]
NoDrainLog ==
    [tab |-> 0, pulled |-> <<>>, started |-> <<>>, overlapped |-> FALSE,
     cancelled |-> FALSE, navigated |-> FALSE, aborted |-> FALSE]
DrainIdle ==
    /\ drains = [l \in DrainIds |-> IdleDrain]
    /\ drainLog = NoDrainLog

\* WaitForElementVisible has not been called.
NoVisibleWait ==
    [pc |-> "idle", timeout |-> 0, now |-> 0, isResolved |-> FALSE, interval |-> FALSE,
     timer |-> FALSE, settles |-> <<>>, polls |-> 0,
     last |-> [by |-> "none", visible |-> FALSE]]

\* No condition has been evaluated.
NoPolling == [evaluations |-> 0, threw |-> FALSE, sawTrue |-> FALSE]

\* What the constructor of Element leaves: `this.dom = undefined`.
NoCall == [op |-> "none", before |-> "undefined", resolution |-> "none", match |-> "undefined"]
NewElement(selectorType) == [selectorType |-> selectorType, dom |-> "undefined", last |-> NoCall]

\* `new ElementManager()`: an empty map.
NewManager ==
    [elements |-> [n \in {} |-> 0], latest |-> [n \in {} |-> 0], removed |-> {},
     made |-> 0, last |-> [op |-> "none", name |-> "", known |-> FALSE]]

\* A crawler whose executor holds `list`, before anything is serialized.
NewParser(module, list) ==
    [module |-> module, pc |-> "built", original |-> list, document |-> <<>>,
     parsed |-> <<>>, error |-> "none"]

\* No Drag has run: the source is as the page made it, nothing is installed.
NewDrag(retry, draggable, userSelect) ==
    [pc |-> "idle", retry |-> retry, attempt |-> 0, step |-> 0,
     draggable |-> draggable, userSelect |-> userSelect,
     saved |-> [draggable |-> draggable, userSelect |-> userSelect],
     listeners |-> {}, installed |-> FALSE]

\* Nothing runs on the page side.
PageIdle ==
    /\ visibleWait = NoVisibleWait
    /\ polling = NoPolling
    /\ descriptor = NewElement("css")
    /\ manager = NewManager
    /\ drag = NewDrag(0, FALSE, "")
    /\ parser = NewParser("src/types/Instructions.ts", <<>>)

\* No request has been received yet.
NoRequest ==
    [to |-> "none", action |-> "none", tab |-> -1, pending |-> "none", responses |-> <<>>]

\* No queue operation is suspended; nothing was enqueued or returned yet.
NoInflight == [op |-> "none", write |-> <<>>]
NoTrail == [enqueued |-> {}, delivered |-> <<>>, swept |-> {}]

\* The periodic cycles: how many may be in flight, and the state of one
\* that has not run yet.
CycleIds == {1}
NullToken == "null"

IdleCycle ==
    [pc |-> "idle", todo |-> <<>>, started |-> FALSE, hadToken |-> FALSE,
     pendingAtStart |-> 0, loginTried |-> FALSE, fetchSent |-> FALSE,
     notified |-> <<>>, rejected |-> {}, reports |-> <<>>]

NoStep == [cycle |-> 0, kind |-> "none", sent |-> "none", token |-> NullToken]

Step(c, kind, sent, token) == [cycle |-> c, kind |-> kind, sent |-> sent, token |-> token]

DispatchInit ==
    /\ authToken = NullToken
    /\ tabCount = 1
    /\ cycles = [c \in CycleIds |-> IdleCycle]
    /\ lastStep = NoStep

QueueInit ==
    /\ storage = [k \in {} |-> <<>>]
    /\ response = NoResponse
    /\ dateNow = 0
    /\ connections = [t \in {} |-> 0]
    /\ inflight = NoInflight
    /\ trail = NoTrail
    /\ channel = NoRequest
    /\ PageIdle
    /\ DrainIdle
    /\ DispatchInit

addInstructions(newInstructions) ==
    LET result == StorageGet({"instructions"})
        stored == InstructionsOrEmpty(result)
    IN  /\ Len(stored) + Len(newInstructions) <= MaxQueue
        /\ storage' = StorageSetInstructions(stored \o newInstructions)
        /\ response' = [action |-> "addInstructions", tab |-> -1, index |-> -1, arg |-> -1,
                        data |-> <<Len(newInstructions)>>]
        /\ UNCHANGED dateNow
        /\ UNCHANGED nonQueueVars

\* The storage read of getInstructionsByIndexAndDelete: it asks for the key
\* 'tasks' and then reads the field `instructions` of what it got.
DrainRead == InstructionsOrEmpty(StorageGet({"tasks"}))

getInstructionsByIndexAndDelete(index) ==
    LET stored == DrainRead
        matchedInstructions == SelectSeq(stored, LAMBDA e : e.index = index)
        remainingInstructions == SelectSeq(stored, LAMBDA e : e.index # index)
    IN  [returned |-> matchedInstructions,
         store    |-> IF Len(matchedInstructions) > 0
                      THEN StorageSetInstructions(remainingInstructions)
                      ELSE storage]

\* `sender.tab?.index || -1`
SenderIndex(tabIndex) == IF tabIndex = 0 THEN -1 ELSE tabIndex

\* onMessage, case 'getInstructions', from the content script of tab tabIndex.
\* response.index is the queue key the handler drains.
OnGetInstructions(tabIndex) ==
    LET index == SenderIndex(tabIndex)
        r == getInstructionsByIndexAndDelete(index)
    IN  /\ storage' = r.store
        /\ response' = [action |-> "getInstructions", tab |-> tabIndex,
                        index |-> index, arg |-> -1, data |-> r.returned]
        /\ UNCHANGED dateNow
        /\ UNCHANGED nonQueueVars

\* drainFirst(target): pops the head of the target's queue, if it has one.
drainFirst(stored, target) ==
    LET first == CHOOSE i \in 1..Len(stored) :
                    /\ stored[i].index = target
                    /\ \A j \in 1..(i - 1) : stored[j].index # target
    IN  IF SelectSeq(stored, LAMBDA e : e.index = target) = <<>>
        THEN [returned |-> <<>>, rest |-> stored]
        ELSE [returned |-> <<stored[first]>>,
              rest |-> SubSeq(stored, 1, first - 1) \o SubSeq(stored, first + 1, Len(stored))]

\* onMessage, case 'getSingleInstruction' (drainFirst): the handler is not
\* part of the sources at hand; it pops the head of the sender's queue.
OnGetSingleInstruction(tabIndex) ==
    LET r == drainFirst(InstructionsOrEmpty(StorageGet({"instructions"})), tabIndex)
    IN  /\ response' = [action |-> "getSingleInstruction", tab |-> tabIndex,
                        index |-> tabIndex, arg |-> -1, data |-> r.returned]
        /\ storage' = IF r.returned = <<>> THEN storage ELSE StorageSetInstructions(r.rest)
        /\ UNCHANGED dateNow
        /\ UNCHANGED nonQueueVars

QueueNext ==
    \/ \E b \in Batches : addInstructions(b)
    \/ \E t \in Tabs : OnGetInstructions(t)
    \/ \E t \in Tabs : OnGetSingleInstruction(t)

\* An Executor with no instructions, which nothing drives.
ExecutorIdle == ExecutorInit /\ instructions = <<>>

SpecQueueInit == ExecutorIdle /\ QueueInit /\ CatalogIdle

SpecQueue == SpecQueueInit /\ [][QueueNext]_vars

\* C29: a context in the tab at index i >= 0 that pulls is answered from the
\* queue of target i: the key drained is i, what is returned is what was
\* queued for i (all of it, or its head for a single pull) and belongs to i,
\* and the entries of the other targets stay queued.
C29_PullAnsweredFromOwnQueue ==
    [][response'.action \in {"getInstructions", "getSingleInstruction"} =>
          LET t == response'.tab
              data == response'.data
          IN  /\ response'.index = t
              /\ \A k \in 1..Len(data) : data[k].index = t
              /\ QueueOf(storage, t) # <<>> => data # <<>>
              /\ QueueOf(storage, t) = data \o QueueOf(storage', t)
              /\ \A u \in Tabs \ {t} : QueueOf(storage', u) = QueueOf(storage, u)]_vars

----------------------------------------------------------------------------
(* Dispatcher: the connection registry, a map from target to               *)
(* {index, connectedAt, lastSeenAt, url}.  The sources hold only its       *)
(* caller (the content script's 'contentScriptReady' message); the         *)
(* operations follow their description.                                    *)

Targets == Tabs
Urls == {"u", "v"}

\* The dispatcher's clock advances.
Tick ==
    /\ dateNow < MaxClock
    /\ dateNow' = dateNow + 1
    /\ UNCHANGED <<storage, response, connections, raceVars, cycleVars>>
    /\ UNCHANGED nonDispatcherVars

isConnected(conns, target) == target \in DOMAIN conns

listConnected(conns) == {conns[t] : t \in DOMAIN conns}

recordOverwrites(target, url) ==
    /\ connections' = (target :> [index |-> target, connectedAt |-> dateNow,
                                  lastSeenAt |-> dateNow, url |-> url]) @@ connections
    /\ response' = [action |-> "record", tab |-> target, index |-> target, arg |-> -1,
                    data |-> <<>>]
    /\ UNCHANGED <<storage, dateNow, raceVars, cycleVars>>
    /\ UNCHANGED nonDispatcherVars

\* record(target): upsert, preserving the earliest connectedAt.
record(target, url) ==
    /\ connections' =
          (target :> [index       |-> target,
                      connectedAt |-> IF isConnected(connections, target)
                                      THEN connections[target].connectedAt
                                      ELSE dateNow,
                      lastSeenAt  |-> dateNow,
                      url         |-> url]) @@ connections
    /\ response' = [action |-> "record", tab |-> target, index |-> target, arg |-> -1,
                    data |-> <<>>]
    /\ UNCHANGED <<storage, dateNow, raceVars, cycleVars>>
    /\ UNCHANGED nonDispatcherVars

\* remove(target)
remove(target) ==
    /\ connections' = [t \in DOMAIN connections \ {target} |-> connections[t]]
    /\ response' = [action |-> "remove", tab |-> target, index |-> target, arg |-> -1,
                    data |-> <<>>]
    /\ UNCHANGED <<storage, dateNow, raceVars, cycleVars>>
    /\ UNCHANGED nonDispatcherVars

RegistryNext ==
    \/ Tick
    \/ \E t \in Targets, u \in Urls : record(t, u)
    \/ \E t \in Targets : remove(t)

SpecRegistry == SpecQueueInit /\ [][RegistryNext]_vars

----------------------------------------------------------------------------
(* Dispatcher: the sweep of old queue entries, applied to any stored list. *)

DefaultElapsedTime == 3600000
ElapsedTimes == {0, 1, 2, DefaultElapsedTime}
Times == {0, 1, 2}

\* The lists of at most n queue entries.
RECURSIVE ListsUpTo(_)
ListsUpTo(n) ==
    IF n = 0 THEN {<<>>}
    ELSE LET shorter == ListsUpTo(n - 1)
         IN  shorter \cup {Append(l, e) : l \in {x \in shorter : Len(x) = n - 1},
                                          e \in QueueEntries}

\* `instructions.filter(instruction => now - instruction.created_at < elapsedTime)`
RemainingInstructions(stored, t, elapsedTime) ==
    SelectSeq(stored, LAMBDA e : t - e.created_at < elapsedTime)

deleteInstructionsByCreatedAt(elapsedTime) ==
    LET stored == InstructionsOrEmpty(StorageGet({"instructions"}))
        remainingInstructions == RemainingInstructions(stored, dateNow, elapsedTime)
    IN  /\ storage' = IF Len(stored) > Len(remainingInstructions)
                      THEN StorageSetInstructions(remainingInstructions)
                      ELSE storage
        /\ response' = [action |-> "deleteInstructionsByCreatedAt", tab |-> -1, index |-> -1,
                        arg |-> elapsedTime,
                        data |-> <<Len(stored) - Len(remainingInstructions)>>]
        /\ UNCHANGED dateNow
        /\ UNCHANGED nonQueueVars

SweepNext == \E m \in ElapsedTimes : deleteInstructionsByCreatedAt(m)

\* Any stored list, created_at being whatever the server sent, at any time.
SpecSweepInit ==
    /\ ExecutorIdle
    /\ CatalogIdle
    /\ storage \in {[k \in {} |-> <<>>]} \cup {("instructions" :> l) : l \in ListsUpTo(MaxQueue)}
    /\ response = NoResponse
    /\ dateNow \in Times
    /\ connections = [t \in {} |-> 0]
    /\ inflight = NoInflight
    /\ trail = NoTrail
    /\ channel = NoRequest
    /\ PageIdle
    /\ DrainIdle
    /\ DispatchInit

SpecSweep == SpecSweepInit /\ [][SweepNext]_vars

----------------------------------------------------------------------------
(* Dispatcher: the queue operations as they interleave.  addInstructions   *)
(* and deleteInstructionsByCreatedAt await the storage get, compute, and   *)
(* await the storage set; between the two a message handler can run.  One  *)
(* such operation at a time is suspended here, each entry is handed to     *)
(* addInstructions once, and the drains are message handlers.              *)

RaceFrame ==
    UNCHANGED <<dateNow, connections, cycleVars>> /\ UNCHANGED nonDispatcherVars

EntriesOf(list) == {list[k] : k \in 1..Len(list)}

\* addInstructions up to the answer of its storage get.
BeginAddInstructions(newInstructions) ==
    /\ inflight.op = "none"
    /\ Len(newInstructions) = Cardinality(EntriesOf(newInstructions))
    /\ EntriesOf(newInstructions) \cap trail.enqueued = {}
    /\ LET stored == InstructionsOrEmpty(StorageGet({"instructions"}))
       IN  /\ Len(stored) + Len(newInstructions) <= MaxQueue
           /\ inflight' = [op |-> "addInstructions", write |-> <<stored \o newInstructions>>]
    /\ trail' = [trail EXCEPT !.enqueued = @ \cup EntriesOf(newInstructions)]
    /\ UNCHANGED <<storage, response>>
    /\ RaceFrame

\* deleteInstructionsByCreatedAt up to the answer of its storage get; it
\* goes on to write only if it dropped an entry.
BeginDeleteInstructionsByCreatedAt(elapsedTime) ==
    /\ inflight.op = "none"
    /\ LET stored == InstructionsOrEmpty(StorageGet({"instructions"}))
           remainingInstructions == RemainingInstructions(stored, dateNow, elapsedTime)
       IN  /\ inflight' = [op |-> "deleteInstructionsByCreatedAt",
                        write |-> IF Len(stored) > Len(remainingInstructions)
                                  THEN <<remainingInstructions>> ELSE <<>>]
           /\ trail' = [trail EXCEPT !.swept =
                            @ \cup (EntriesOf(stored) \ EntriesOf(remainingInstructions))]
    /\ UNCHANGED <<storage, response>>
    /\ RaceFrame

\* addInstructions called by another cycle, its storage get and its storage
\* set both falling between two steps of the others; an operation may be
\* suspended meanwhile.
AddInstructionsBetween(newInstructions) ==
    /\ Len(newInstructions) = Cardinality(EntriesOf(newInstructions))
    /\ EntriesOf(newInstructions) \cap trail.enqueued = {}
    /\ LET stored == InstructionsOrEmpty(StorageGet({"instructions"}))
       IN  /\ Len(stored) + Len(newInstructions) <= MaxQueue
           /\ storage' = StorageSetInstructions(stored \o newInstructions)
    /\ response' = [action |-> "addInstructions", tab |-> -1, index |-> -1, arg |-> -1,
                    data |-> <<>>]
    /\ trail' = [trail EXCEPT !.enqueued = @ \cup EntriesOf(newInstructions)]
    /\ UNCHANGED inflight
    /\ RaceFrame

\* The suspended operation goes on: its storage set, with the list it
\* computed from what it had read.
EndInflight ==
    /\ inflight.op # "none"
    /\ storage' = IF inflight.write = <<>> THEN storage
                  ELSE StorageSetInstructions(inflight.write[1])
    /\ response' = [action |-> inflight.op, tab |-> -1, index |-> -1, arg |-> -1,
                    data |-> <<>>]
    /\ inflight' = NoInflight
    /\ UNCHANGED trail
    /\ RaceFrame

\* onMessage, case 'getSingleInstruction', while an operation may be suspended.
DrainFirstRequest(tabIndex) ==
    LET r == drainFirst(InstructionsOrEmpty(StorageGet({"instructions"})), tabIndex)
    IN  /\ response' = [action |-> "getSingleInstruction", tab |-> tabIndex,
                        index |-> tabIndex, arg |-> -1, data |-> r.returned]
        /\ storage' = IF r.returned = <<>> THEN storage ELSE StorageSetInstructions(r.rest)
        /\ trail' = [trail EXCEPT !.delivered = @ \o r.returned]
        /\ UNCHANGED inflight
        /\ RaceFrame

\* onMessage, case 'getInstructions', while an operation may be suspended.
DrainAllRequest(tabIndex) ==
    LET index == SenderIndex(tabIndex)
        r == getInstructionsByIndexAndDelete(index)
    IN  /\ response' = [action |-> "getInstructions", tab |-> tabIndex,
                        index |-> index, arg |-> -1, data |-> r.returned]
        /\ storage' = r.store
        /\ trail' = [trail EXCEPT !.delivered = @ \o r.returned]
        /\ UNCHANGED inflight
        /\ RaceFrame

RaceNext ==
    \/ \E b \in FetchedLists \ {<<>>} : BeginAddInstructions(b)
    \/ \E b \in FetchedLists \ {<<>>} : AddInstructionsBetween(b)
    \/ \E m \in ElapsedTimes : BeginDeleteInstructionsByCreatedAt(m)
    \/ EndInflight
    \/ \E t \in Tabs : DrainFirstRequest(t)
    \/ \E t \in Tabs : DrainAllRequest(t)

SpecRaceInit == ExecutorIdle /\ QueueInit /\ CatalogIdle

SpecRace == SpecRaceInit /\ [][RaceNext]_vars

\* C18: no entry is returned by the drains more than once.
C18_DeliveredAtMostOnce ==
    \A e \in QueueEntries : Occurrences(trail.delivered, e) <= 1

\* C26: no queue update is lost: once no operation is suspended, every entry
\* that was passed to addInstructions is in the stored list unless it was
\* returned by a drain or dropped by a sweep.
C26_NoUpdateLost ==
    inflight.op = "none" =>
        \A e \in trail.enqueued :
            \/ e \in EntriesOf(InstructionsOrEmpty(StorageGet({"instructions"})))
            \/ e \in EntriesOf(trail.delivered)
            \/ e \in trail.swept

----------------------------------------------------------------------------
(* Execution context: the drain loop.  On 'notify' the content script runs  *)
(* executeTaskFromBackground: it clears the Executor, then pulls one        *)
(* instruction at a time with 'getSingleInstruction' and runs it with       *)
(* loadAndExecuteFromJSONString (parse, addInstruction, executeInstruction  *)
(* of the last index) until the dispatcher has nothing more for its tab.    *)
(* The queue holds, for the tab, payloads that parse to a click, payloads   *)
(* that parse to a navigation, and payloads that do not parse.              *)

DrainPayloads == {"click", "navigate", "{"}

\* The lists of at most n payloads.
RECURSIVE PayloadLists(_)
PayloadLists(n) ==
    IF n = 0 THEN {<<>>}
    ELSE LET shorter == PayloadLists(n - 1)
         IN  shorter \cup {Append(l, x) : l \in {y \in shorter : Len(y) = n - 1},
                                          x \in DrainPayloads}

\* parser.parseFromJSONString: JSON.parse and parseInstruction; both throw
\* on what they cannot read.
ParseThrows(jsonString) == jsonString \notin InstructionTypes
parseFromJSONString(jsonString) == [type |-> jsonString, id |-> "a"]

DrainFrame ==
    UNCHANGED <<loopPc, loopI, singlePc, singleIdx, execLog, ret, interrupts, response,
                dateNow, registryVars, raceVars, cycleVars, messagingVars, pageVars,
                catalogVars>>

\* handleMessage, case 'notify': executeTaskFromBackground up to its first
\* 'getSingleInstruction'.  Nothing looks at whether a loop is running.
OnNotify(l) ==
    /\ drains[l].pc = "idle"
    /\ instructions' = <<>>
    /\ results' = EmptyArray
    /\ currentIndex' = 0
    /\ drains' = [drains EXCEPT ![l].pc = "pulling"]
    /\ drainLog' = [drainLog EXCEPT
                       !.overlapped = \E k \in DrainIds : drains[k].pc # "idle",
                       !.cancelled = FALSE, !.navigated = FALSE, !.aborted = FALSE]
    /\ UNCHANGED <<isRunning, storage>>
    /\ DrainFrame

\* The dispatcher answers 'getSingleInstruction' with the head of the tab's
\* queue, and the loop goes on with the answer: nothing left, it ends; a
\* payload that does not parse, it ends with the error; else the instruction
\* is added and executeInstruction is called for the last index.
Pull(l) ==
    /\ drains[l].pc = "pulling"
    /\ LET r == drainFirst(InstructionsOrEmpty(StorageGet({"instructions"})), drainLog.tab)
       IN  IF r.returned = <<>>
           THEN /\ drains' = [drains EXCEPT ![l] = IdleDrain]
                /\ UNCHANGED <<storage, instructions, drainLog>>
           ELSE /\ storage' = StorageSetInstructions(r.rest)
                /\ IF ParseThrows(r.returned[1].instruction)
                   THEN /\ drains' = [drains EXCEPT ![l] = IdleDrain]
                        /\ drainLog' = [drainLog EXCEPT !.pulled = Append(@, r.returned[1]),
                                                        !.aborted = TRUE]
                        /\ UNCHANGED instructions
                   ELSE LET instruction == parseFromJSONString(r.returned[1].instruction)
                        IN  /\ instructions' = Append(instructions, instruction)
                            /\ drains' = [drains EXCEPT ![l] =
                                             [pc |-> "executing", idx |-> Len(instructions),
                                              instruction |-> instruction]]
                            /\ drainLog' = [drainLog EXCEPT
                                               !.pulled = Append(@, r.returned[1]),
                                               !.started = Append(@, r.returned[1])]
    /\ UNCHANGED <<results, isRunning, currentIndex>>
    /\ DrainFrame

\* instruction.execute() of a loop settles: executeInstruction stores the
\* result at its index and the loop asks for the next instruction.
Executed(l, outcome, d) ==
    /\ drains[l].pc = "executing"
    /\ results' = ArrayAssign(results, drains[l].idx,
                              ResultFor(drains[l].instruction, outcome, d))
    /\ drains' = [drains EXCEPT ![l] = [IdleDrain EXCEPT !.pc = "pulling"]]
    /\ drainLog' = [drainLog EXCEPT
                       !.navigated = @ \/ (drains[l].instruction.type = "navigate"
                                           /\ outcome = "success")]
    /\ UNCHANGED <<instructions, isRunning, currentIndex, storage>>
    /\ DrainFrame

\* handleMessage, case 'pauseExecution': crawler.pause().
OnPauseExecution ==
    /\ isRunning' = FALSE
    /\ drainLog' = [drainLog EXCEPT !.cancelled = TRUE]
    /\ UNCHANGED <<instructions, results, currentIndex, storage, drains>>
    /\ DrainFrame

\* handleMessage, case 'stopExecution': crawler.stop().
OnStopExecution ==
    /\ isRunning' = FALSE
    /\ currentIndex' = 0
    /\ drainLog' = [drainLog EXCEPT !.cancelled = TRUE]
    /\ UNCHANGED <<instructions, results, storage, drains>>
    /\ DrainFrame

DrainNext ==
    \/ \E l \in DrainIds : OnNotify(l)
    \/ \E l \in DrainIds : Pull(l)
    \/ \E l \in DrainIds, o \in Outcomes, d \in Durations : Executed(l, o, d)
    \/ OnPauseExecution
    \/ OnStopExecution

\* A context in some tab, with any queue waiting for it at the dispatcher.
SpecDrainInit ==
    /\ ExecutorIdle
    /\ CatalogIdle
    /\ response = NoResponse
    /\ dateNow = 0
    /\ connections = [t \in {} |-> 0]
    /\ inflight = NoInflight
    /\ trail = NoTrail
    /\ channel = NoRequest
    /\ PageIdle
    /\ DispatchInit
    /\ drains = [l \in DrainIds |-> IdleDrain]
    /\ \E t \in Tabs, l \in PayloadLists(MaxQueue) :
          /\ storage = ("instructions" :>
                           [k \in 1..Len(l) |->
                               [index |-> t, instruction |-> l[k], created_at |-> 0]])
          /\ drainLog = [NoDrainLog EXCEPT !.tab = t]

SpecDrain == SpecDrainInit /\ [][DrainNext]_vars

----------------------------------------------------------------------------
(* Dispatcher: the periodic cycle (TaskPeriodicAlarm).  A cycle is a chain  *)
(* of awaits; each action below runs one cycle from one await to the next. *)

\* The `tasks` of a fetch response: none, or one 'open' task for a tab index.
FetchedTasks == {-1} \cup Tabs

\* `!authToken`
Falsy(token) == token \in {NullToken, ""}

\* `authToken || ''`, the credential a request carries.
Carried(token) == IF Falsy(token) THEN "" ELSE token

\* The number of queued instructions, all targets together.
PendingCount == Len(InstructionsOrEmpty(StorageGet({"instructions"})))

DispatchFrame ==
    UNCHANGED <<response, dateNow, connections, raceVars>> /\ UNCHANGED nonDispatcherVars

\* getTaskListAndInstructions up to its first await: without a credential
\* it answers false and the cycle ends; else it awaits GetNodeProfile().
CallGetTaskList(c, cyc, token, kind) ==
    /\ cycles' = [cycles EXCEPT ![c] =
                     [cyc EXCEPT !.pc = IF Falsy(token) THEN "idle" ELSE "profile"]]
    /\ lastStep' = Step(c, kind, "none", NullToken)

\* TaskPeriodicAlarm as it would be behind a guard that lets one cycle run
\* at a time.
TaskPeriodicAlarmGuarded(c) ==
    /\ \A d \in DOMAIN cycles : cycles[d].pc = "idle"
    /\ LET cyc == [IdleCycle EXCEPT !.started = TRUE,
                                    !.hadToken = ~Falsy(authToken),
                                    !.pendingAtStart = PendingCount]
       IN  IF Falsy(authToken)
           THEN /\ cycles' = [cycles EXCEPT ![c] = [cyc EXCEPT !.pc = "login",
                                                               !.loginTried = TRUE]]
                /\ lastStep' = Step(c, "alarm", "login", NullToken)
           ELSE CallGetTaskList(c, cyc, authToken, "alarm")
    /\ UNCHANGED <<authToken, tabCount, storage>>
    /\ DispatchFrame

\* The alarm fires: TaskPeriodicAlarm up to its first request.  With no
\* credential cached the login request is sent, else the task fetch.
TaskPeriodicAlarm(c) ==
    /\ cycles[c].pc = "idle"
    /\ LET cyc == [IdleCycle EXCEPT !.started = TRUE,
                                    !.hadToken = ~Falsy(authToken),
                                    !.pendingAtStart = PendingCount]
       IN  IF Falsy(authToken)
           THEN /\ cycles' = [cycles EXCEPT ![c] = [cyc EXCEPT !.pc = "login",
                                                               !.loginTried = TRUE]]
                /\ lastStep' = Step(c, "alarm", "login", NullToken)
           ELSE CallGetTaskList(c, cyc, authToken, "alarm")
    /\ UNCHANGED <<authToken, tabCount, storage>>
    /\ DispatchFrame

\* login, from the answer to its request on: a 2xx answer with a token
\* caches it and the cycle goes on to getTaskListAndInstructions; anything
\* else (no answer, a non-2xx answer) clears it and the cycle ends.
LoginResponse(c, ok, token) ==
    /\ cycles[c].pc = "login"
    /\ IF ok
       THEN /\ authToken' = token
            /\ CallGetTaskList(c, cycles[c], token, "login ok")
       ELSE /\ authToken' = NullToken
            /\ cycles' = [cycles EXCEPT ![c].pc = "idle"]
            /\ lastStep' = Step(c, "login failed", "none", NullToken)
    /\ UNCHANGED <<tabCount, storage>>
    /\ DispatchFrame

\* getTaskListAndInstructions has its profile: the GET for new work is
\* sent, with the credential that is cached now.
SendFetch(c) ==
    /\ cycles[c].pc = "profile"
    /\ cycles' = [cycles EXCEPT ![c].pc = "fetch", ![c].fetchSent = TRUE]
    /\ lastStep' = Step(c, "fetch sent", "fetch", Carried(authToken))
    /\ UNCHANGED <<authToken, tabCount, storage>>
    /\ DispatchFrame

\* The fetch of getTaskListAndInstructions gets no answer (fetch throws), or
\* a 2xx answer without a list of instructions (`instructions.map` throws):
\* caught, the cycle ends, the credential stays.
FetchThrows(c) ==
    /\ cycles[c].pc = "fetch"
    /\ cycles' = [cycles EXCEPT ![c].pc = "idle"]
    /\ lastStep' = Step(c, "fetch throws", "none", NullToken)
    /\ UNCHANGED <<authToken, tabCount, storage>>
    /\ DispatchFrame

\* The fetch gets a non-2xx answer: the credential is cleared, the cycle ends.
FetchRejected(c) ==
    /\ cycles[c].pc = "fetch"
    /\ authToken' = NullToken
    /\ cycles' = [cycles EXCEPT ![c].pc = "idle"]
    /\ lastStep' = Step(c, "fetch rejected", "none", NullToken)
    /\ UNCHANGED <<tabCount, storage>>
    /\ DispatchFrame

\* newTabIfNeeded(index): tabs are created until the window has index + 1.
newTabIfNeeded(count, index) == IF index + 1 > count THEN index + 1 ELSE count

\* The loop over indexRange goes on while indices remain; after the last one
\* getTaskListAndInstructions answers true and the cycle ends.
LoopPc(todo) == IF todo = <<>> THEN "idle" ELSE "notify"

\* The fetch gets a 2xx answer: its tasks are executed, its instructions
\* are added to the queue, and the loop over their indices begins.
FetchOk(c, task, fetched) ==
    /\ cycles[c].pc = "fetch"
    /\ LET stored == InstructionsOrEmpty(StorageGet({"instructions"}))
       IN  /\ Len(stored) + Len(fetched) <= MaxQueue
           /\ storage' = IF Len(fetched) > 0
                         THEN StorageSetInstructions(stored \o fetched)
                         ELSE storage
    /\ tabCount' = IF task >= 0 THEN newTabIfNeeded(tabCount, task) ELSE tabCount
    /\ LET indexRange == [k \in 1..Len(fetched) |-> fetched[k].index]
       IN  cycles' = [cycles EXCEPT ![c].pc = LoopPc(indexRange), ![c].todo = indexRange]
    /\ lastStep' = Step(c, "fetch ok", "none", NullToken)
    /\ UNCHANGED authToken
    /\ DispatchFrame

\* One turn of the loop, for the index at its head.  A tab at that index:
\* it is sent { action: 'executeInstructions' }, once, and the loop goes on
\* without waiting; whether a content script received it is not looked at.
\* No tab there: the failure is reported to the server.
NotifyTarget(c, received) ==
    /\ cycles[c].pc = "notify"
    /\ LET cyc == cycles[c]
           index == Head(cyc.todo)
       IN  IF index < tabCount
           THEN /\ cycles' = [cycles EXCEPT ![c] =
                       [cyc EXCEPT !.todo = Tail(cyc.todo),
                                   !.pc = LoopPc(Tail(cyc.todo)),
                                   !.notified = Append(cyc.notified, index),
                                   !.rejected = IF received THEN cyc.rejected
                                                ELSE cyc.rejected \cup {index}]]
                /\ lastStep' = Step(c, "notify", "none", NullToken)
           ELSE /\ received
                /\ cycles' = [cycles EXCEPT ![c] =
                       [cyc EXCEPT !.pc = "reply",
                                   !.reports = Append(cyc.reports, index)]]
                /\ lastStep' = Step(c, "report", "reply", Carried(authToken))
    /\ UNCHANGED <<authToken, tabCount, storage>>
    /\ DispatchFrame

ReplyOutcomes == {"ok", "rejected", "network error"}

\* replyResultToServer, from the answer to its request on: anything but a
\* 2xx answer (a non-2xx answer, no answer at all) clears the credential.
ReplyToken(outcome) == IF outcome = "ok" THEN authToken ELSE NullToken

\* The report of a cycle is answered; the loop goes on with the next index.
ReplyResponse(c, outcome) ==
    /\ cycles[c].pc = "reply"
    /\ authToken' = ReplyToken(outcome)
    /\ cycles' = [cycles EXCEPT ![c].todo = Tail(cycles[c].todo),
                                ![c].pc = LoopPc(Tail(cycles[c].todo))]
    /\ lastStep' = Step(c, "reply " \o outcome, "none", NullToken)
    /\ UNCHANGED <<tabCount, storage>>
    /\ DispatchFrame

\* A content script's 'taskReply' or 'instructionReply' is forwarded to the
\* server with replyResultToServer, outside any cycle.
ForwardReply(outcome) ==
    /\ authToken' = ReplyToken(outcome)
    /\ lastStep' = Step(0, "reply " \o outcome, "reply", Carried(authToken))
    /\ UNCHANGED <<tabCount, storage, cycles>>
    /\ DispatchFrame

Tokens == {"tok", ""}

DispatchNext ==
    \/ \E c \in CycleIds : TaskPeriodicAlarm(c)
    \/ \E c \in CycleIds, ok \in BOOLEAN, token \in Tokens : LoginResponse(c, ok, token)
    \/ \E c \in CycleIds : SendFetch(c)
    \/ \E c \in CycleIds : FetchThrows(c)
    \/ \E c \in CycleIds : FetchRejected(c)
    \/ \E c \in CycleIds, task \in FetchedTasks, fetched \in FetchedLists :
          FetchOk(c, task, fetched)
    \/ \E c \in CycleIds, received \in BOOLEAN : NotifyTarget(c, received)
    \/ \E c \in CycleIds, outcome \in ReplyOutcomes : ReplyResponse(c, outcome)
    \/ \E outcome \in ReplyOutcomes : ForwardReply(outcome)

SpecDispatchInit == ExecutorIdle /\ QueueInit /\ CatalogIdle

SpecDispatch == SpecDispatchInit /\ [][DispatchNext]_vars

\* Two alarms in a row: the onAlarm listener calls TaskPeriodicAlarm for each
\* alarm, whether or not the call before it has returned.  Each call is one
\* cycle; a fetch answers with nothing, with one instruction for the tab
\* that is open or with one for a tab that is not.
OverlapIds == {1, 2}

OverlapLists ==
    {<<>>} \cup {<<[index |-> t, instruction |-> "A", created_at |-> 0]>> : t \in {0, 1}}

OverlapNext ==
    \/ \E c \in OverlapIds : TaskPeriodicAlarm(c)
    \/ \E c \in OverlapIds, ok \in BOOLEAN : LoginResponse(c, ok, "tok")
    \/ \E c \in OverlapIds : SendFetch(c)
    \/ \E c \in OverlapIds : FetchThrows(c)
    \/ \E c \in OverlapIds : FetchRejected(c)
    \/ \E c \in OverlapIds, fetched \in OverlapLists : FetchOk(c, -1, fetched)
    \/ \E c \in OverlapIds, received \in BOOLEAN : NotifyTarget(c, received)
    \/ \E c \in OverlapIds, outcome \in ReplyOutcomes : ReplyResponse(c, outcome)

SpecOverlapInit ==
    /\ ExecutorIdle
    /\ CatalogIdle
    /\ storage = [k \in {} |-> <<>>]
    /\ response = NoResponse
    /\ dateNow = 0
    /\ connections = [t \in {} |-> 0]
    /\ inflight = NoInflight
    /\ trail = NoTrail
    /\ channel = NoRequest
    /\ PageIdle
    /\ DrainIdle
    /\ authToken = NullToken
    /\ tabCount = 1
    /\ cycles = [c \in OverlapIds |-> IdleCycle]
    /\ lastStep = NoStep

SpecOverlap == SpecOverlapInit /\ [][OverlapNext]_vars

\* C27: the dispatch loop has no re-entrancy guard: an alarm starts a cycle
\* whenever it fires, whatever the cycle before it is doing, and from then on
\* the two run interleaved: a cycle's progress is changed by its own steps
\* only, so neither waits for the other or cancels it.
C27_NoReentrancyGuard ==
    /\ [](\A c \in OverlapIds : cycles[c].pc = "idle" => ENABLED TaskPeriodicAlarm(c))
    /\ [][\A c \in OverlapIds : cycles'[c] # cycles[c] => lastStep'.cycle = c]_vars

\* C27, its case: the second cycle has begun and is awaiting its fetch while
\* the first is in the middle of its loop over the targets.
C27_TwoCyclesInFlight ==
    /\ DOMAIN cycles = OverlapIds
    /\ cycles[1].pc \in {"notify", "reply"}
    /\ cycles[2].pc = "fetch"

----------------------------------------------------------------------------
(* Messaging: the runtime.onMessage listeners of the dispatcher             *)
(* (background.ts) and of the execution context (content.ts, and the later  *)
(* copy of its handler kept in Element.ts).  What a handler does to the     *)
(* crawler is not followed here; what it does to the channel is: each       *)
(* sendResponse call, in order, with its success flag.                      *)

Listeners == {"background", "content", "Element"}

DispatcherActions ==
    {"taskReply", "instructionReply", "getNodeProfile", "updateNodeProfile",
     "getInstructions"}

ContextActions ==
    {"ping", "executeInstructions", "executeFromFile", "getStatistics", "pauseExecution",
     "stopExecution", "exportResults", "exportElements", "importElements", "validateAll",
     "notify"}

\* A request: one of the actions above, an action nobody knows, a message
\* without an action, or no message object at all.
RequestActions ==
    DispatcherActions \cup ContextActions \cup {"unknown", "no action", "null"}

\* How the synchronous part of a handler goes: as hoped, into its failure
\* branch (missing data, failed import, failed validation), or a call throws.
SyncOutcomes == {"ok", "fail", "throw"}

Handled(responses, pending) == [responses |-> responses, pending |-> pending]

\* The listener of background.ts: it answers only from the then-callbacks of
\* 'getNodeProfile' and 'getInstructions'.
BackgroundHandler(action) ==
    CASE action \in {"taskReply", "instructionReply"} -> Handled(<<>>, "reply")
      [] action = "getNodeProfile" -> Handled(<<>>, "respond if resolved")
      [] action = "updateNodeProfile" -> Handled(<<>>, "silent")
      [] action = "getInstructions" -> Handled(<<>>, "drain")
      [] OTHER -> Handled(<<>>, "none")

\* handleMessage of the execution context.  `guarded`: the copy that checks
\* message.data / message.filePath first and answers 'notify' only once.
ContextHandler(action, sync, guarded) ==
    CASE action \in {"null", "no action", "unknown"} -> Handled(<<FALSE>>, "none")
      [] action = "ping" -> Handled(<<TRUE>>, "none")
      [] action \in {"executeInstructions", "executeFromFile"} ->
            IF guarded /\ sync = "fail" THEN Handled(<<FALSE>>, "none")
            ELSE Handled(<<>>, "respond")
      [] action = "notify" ->
            Handled(<<TRUE>>, IF guarded THEN "silent" ELSE "respond")
      [] action \in {"importElements", "validateAll"} -> Handled(<<sync = "ok">>, "none")
      [] OTHER -> Handled(<<sync # "throw">>, "none")

\* The outcomes the synchronous part of a handler can have.
SyncOutcomesOf(to, action) ==
    IF to = "background" THEN {"ok"}
    ELSE CASE action \in {"importElements", "validateAll"} -> SyncOutcomes
           [] action \in {"executeInstructions", "executeFromFile"} ->
                 IF to = "Element" THEN {"ok", "fail"} ELSE {"ok"}
           [] action \in {"getStatistics", "pauseExecution", "stopExecution",
                          "exportResults", "exportElements"} -> {"ok", "throw"}
           [] OTHER -> {"ok"}

MessagingFrame ==
    UNCHANGED <<executorVars, response, dateNow, registryVars, raceVars, tabCount, cycles,
                lastStep, drainVars, pageVars, catalogVars>>

\* A listener is called with a request: the synchronous part of its handler.
Receive(to, action, tab, sync) ==
    /\ channel.pending = "none"
    /\ sync \in SyncOutcomesOf(to, action)
    /\ LET h == IF to = "background" THEN BackgroundHandler(action)
                ELSE ContextHandler(action, sync, to = "Element")
       IN  channel' = [to |-> to, action |-> action, tab |-> tab,
                       pending |-> h.pending, responses |-> h.responses]
    /\ UNCHANGED <<storage, authToken>>
    /\ MessagingFrame

\* The promise a handler waits for settles, and its then- or catch-callback
\* runs.
Settle(resolved) ==
    /\ channel.pending \in {"respond", "respond if resolved", "silent"}
    /\ channel' = [channel EXCEPT
                      !.pending = "none",
                      !.responses =
                          IF channel.pending = "respond" THEN Append(@, resolved)
                          ELSE IF channel.pending = "respond if resolved" /\ resolved
                               THEN Append(@, TRUE)
                               ELSE @]
    /\ UNCHANGED <<storage, authToken>>
    /\ MessagingFrame

\* replyResultToServer, called for 'taskReply' or 'instructionReply',
\* resolves: nothing is sent back, whatever the server said.
SettleReply(outcome) ==
    /\ channel.pending = "reply"
    /\ authToken' = ReplyToken(outcome)
    /\ channel' = [channel EXCEPT !.pending = "none"]
    /\ UNCHANGED storage
    /\ MessagingFrame

\* getInstructionsByIndexAndDelete, called for 'getInstructions', resolves
\* (it catches what it throws), and its list is sent back.
SettleDrain ==
    /\ channel.pending = "drain"
    /\ storage' = getInstructionsByIndexAndDelete(SenderIndex(channel.tab)).store
    /\ channel' = [channel EXCEPT !.pending = "none", !.responses = Append(@, TRUE)]
    /\ UNCHANGED authToken
    /\ MessagingFrame

MessagingNext ==
    \/ \E to \in Listeners, action \in RequestActions, tab \in Tabs, sync \in SyncOutcomes :
          Receive(to, action, tab, sync)
    \/ \E resolved \in BOOLEAN : Settle(resolved)
    \/ \E outcome \in ReplyOutcomes : SettleReply(outcome)
    \/ SettleDrain

SpecMessagingInit == ExecutorIdle /\ QueueInit /\ CatalogIdle

SpecMessaging == SpecMessagingInit /\ [][MessagingNext]_vars

\* C20: once the handling of a request is over, exactly one response has
\* been sent for it, and at no time more than one.
C20_ExactlyOneResponse ==
    /\ Len(channel.responses) <= 1
    /\ (channel.action # "none" /\ channel.pending = "none") => Len(channel.responses) = 1

----------------------------------------------------------------------------
(* Drain loop: claims *)

Executing == {l \in DrainIds : drains[l].pc = "executing"}

\* The step starts the execution of the instruction at the head of the
\* tab's queue, if it starts one at all.
StartsInQueueOrder ==
    drainLog'.started # drainLog.started =>
        /\ QueueOf(storage, drainLog.tab) # <<>>
        /\ drainLog'.started = Append(drainLog.started, Head(QueueOf(storage, drainLog.tab)))

\* C22: when the drain loop of a notify that met no other loop ends, the
\* tab's queue is empty and every instruction pulled has been executed, each
\* once, in the order of the queue.
C22_DrainRunsQueueDry ==
    [][/\ StartsInQueueOrder
       /\ \A l \in DrainIds :
              (drains[l].pc = "pulling" /\ drains'[l].pc = "idle" /\ ~drainLog.overlapped)
                  => /\ QueueOf(storage', drainLog.tab) = <<>>
                     /\ drainLog'.started = drainLog'.pulled
                     /\ results'.length = Len(instructions')]_vars

\* C23: once a navigation pulled from the queue has succeeded, the context
\* pulls nothing more and starts nothing more.
C23_NavigateEndsDrain ==
    [][drainLog.navigated => /\ drainLog'.pulled = drainLog.pulled
                             /\ drainLog'.started = drainLog.started]_vars

\* C24: in one context no two instructions execute at a time, and they are
\* started in the order of the queue.
C24_OneAtATimeInOrder ==
    [][Cardinality({l \in DrainIds : drains'[l].pc = "executing"}) <= 1
       /\ StartsInQueueOrder]_vars

\* C25: while an instruction is in flight no recorded result is dropped or
\* replaced, and the completion of an instruction adds its result, one, at
\* the end of the results.
C25_ResultsOnlyGrow ==
    [][/\ Executing # {} =>
              \A i \in DOMAIN results.items :
                  i \in DOMAIN results'.items /\ results'.items[i] = results.items[i]
       /\ \A l \in Executing :
              drains'[l].pc # "executing" =>
                  /\ results'.length = results.length + 1
                  /\ DOMAIN results'.items = DOMAIN results.items \cup {results.length}
                  /\ results'.items[results.length].instructionID
                         = drains[l].instruction.id]_vars

\* C28: once pause or stop has been requested, the context starts no
\* further instruction (until it is notified again).
C28_NoStartAfterCancel ==
    [][drainLog.cancelled => drainLog'.started = drainLog.started]_vars

----------------------------------------------------------------------------
(* Dispatch cycle: claims *)

\* C14: a cycle that begins while instructions are pending in the queue
\* sends no fetch request; only a cycle that begins with an empty queue
\* fetches.
C14_NoFetchWhilePending ==
    \A c \in CycleIds :
        (cycles[c].started /\ cycles[c].pendingAtStart > 0) => ~cycles[c].fetchSent

RejectionSteps == {"fetch rejected", "reply rejected"}
AbortSteps == {"login failed", "fetch throws", "fetch rejected"}

\* C15: a cycle tries to log in exactly when it begins without a cached
\* credential; a cached credential changes only when a request made with it
\* is rejected, and then it is cleared; a failed login or fetch ends the
\* cycle it happened in and leaves the alarm free to begin the next one.
C15_CredentialLifecycle ==
    [][/\ \A c \in CycleIds :
              cycles'[c].started => (cycles'[c].loginTried <=> ~cycles'[c].hadToken)
       /\ (~Falsy(authToken) /\ authToken' # authToken)
              => (lastStep'.kind \in RejectionSteps /\ authToken' = NullToken)
       /\ lastStep'.kind \in RejectionSteps => authToken' = NullToken
       /\ (lastStep'.kind \in AbortSteps /\ lastStep'.cycle \in CycleIds)
              => cycles'[lastStep'.cycle].pc = "idle"]_vars

\* Cycle c has just gone through its notify step to the end.
NotifyStepDone(c) ==
    /\ cycles[c].pc = "idle"
    /\ lastStep.cycle = c
    /\ lastStep.kind \in {"fetch ok", "notify"} \cup {"reply " \o o : o \in ReplyOutcomes}

\* C16: when the notify step of a cycle is over, every target with a
\* non-empty queue has been handled exactly once: one notify message and no
\* reporting failure if a tab is there for it, one reporting failure and no
\* notify message if none is.
C16_EachTargetHandledOnce ==
    \A c \in CycleIds :
        NotifyStepDone(c) =>
            \A t \in Targets :
                QueueOf(storage, t) # <<>> =>
                    IF t < tabCount
                    THEN /\ Occurrences(cycles[c].notified, t) = 1
                         /\ Occurrences(cycles[c].reports, t) = 0
                    ELSE /\ Occurrences(cycles[c].reports, t) = 1
                         /\ Occurrences(cycles[c].notified, t) = 0

\* C17: when the notify step of a cycle is over, every target whose notify
\* message was not received has exactly one reporting failure recorded, and
\* is no longer in the connection registry.
C17_FailedNotifyReported ==
    \A c \in CycleIds :
        NotifyStepDone(c) =>
            \A t \in cycles[c].rejected :
                /\ Occurrences(cycles[c].reports, t) = 1
                /\ ~isConnected(connections, t)

\* C21: a step that sends the fetch for new work or a reply carries a
\* credential, the one that is cached when it is sent; and a step in which
\* such a request is rejected leaves no credential cached.
C21_RequestsCarryCredential ==
    [][/\ lastStep'.sent \in {"fetch", "reply"}
              => (~Falsy(lastStep'.token) /\ lastStep'.token = authToken)
       /\ lastStep'.kind \in RejectionSteps => authToken' = NullToken]_vars

SpecCatalogInit == ExecutorIdle /\ QueueInit /\ CatalogInit

SpecCatalog == SpecCatalogInit /\ [][CatalogNext]_vars

----------------------------------------------------------------------------
(* Queue: claims *)

\* C3: drainFirst(T) returns the oldest entry of T and removes it, so that
\* successive calls return T's entries in insertion order; drainAll(T)
\* returns all entries of T in insertion order and leaves T's queue empty.
C3_FifoDrain ==
    [][/\ (response'.action = "getSingleInstruction" /\ QueueOf(storage, response'.index) # <<>>)
          => /\ response'.data = <<Head(QueueOf(storage, response'.index))>>
             /\ QueueOf(storage', response'.index) = Tail(QueueOf(storage, response'.index))
       /\ response'.action = "getInstructions"
          => /\ response'.data = QueueOf(storage, response'.index)
             /\ QueueOf(storage', response'.index) = <<>>]_vars

StoredInstructions(store) ==
    IF "instructions" \in DOMAIN store THEN store["instructions"] ELSE <<>>

\* C12: sweepExpired(maxAge) removes exactly the entries whose age is not
\* below maxAge, keeps the others in their order and returns the number
\* removed; with maxAge = 0 every entry is removed and the count is the
\* number of entries queued before the sweep.
C12_SweepExpired ==
    [][response'.action = "deleteInstructionsByCreatedAt"
       => LET before == StoredInstructions(storage)
              after == StoredInstructions(storage')
              maxAge == response'.arg
          IN  /\ after = SelectSeq(before, LAMBDA e : ~(dateNow - e.created_at >= maxAge))
              /\ response'.data = <<Len(before) - Len(after)>>
              /\ maxAge = 0 => (after = <<>> /\ response'.data = <<Len(before)>>)]_vars

\* C13: record(T) on a registered T keeps the first connectedAt and sets
\* lastSeenAt to the time of the call, so connectedAt of a registered target
\* never regresses; after remove(T), isConnected(T) is false and T is in no
\* listing (until it is recorded again).  A step that leaves the clock alone
\* and ends with the reply of a record (remove) is a record (remove).
C13_ConnectionRegistry ==
    [][/\ \A t \in DOMAIN connections \cap DOMAIN connections' :
            connections'[t].connectedAt = connections[t].connectedAt
       /\ (response'.action = "record" /\ dateNow' = dateNow)
          => /\ isConnected(connections', response'.index)
             /\ connections'[response'.index].lastSeenAt = dateNow
       /\ (response'.action = "remove" /\ dateNow' = dateNow)
          => /\ ~isConnected(connections', response'.index)
             /\ \A c \in listConnected(connections') : c.index # response'.index]_vars

\* C13 witness: a target recorded a second time, later than the first.
C13_Witness ==
    /\ response.action = "record"
    /\ isConnected(connections, response.index)
    /\ connections[response.index].connectedAt < connections[response.index].lastSeenAt

----------------------------------------------------------------------------
(* Instruction catalog: claims *)

\* An invocation of the body that did not locate, click, type or wait as
\* asked: it threw, or (Locate) answered that the element did not resolve.
AttemptFailed(label) == label \notin {"returned", "returned true", "returned after timeout"}

\* C1: when the body fails on every attempt, the retry runner has invoked it
\* exactly max(1, retry) times when Execute returns, and Execute returns a
\* failure result.
C1_RetryAttempts ==
    (/\ execPc = "done"
     /\ attempts # <<>>
     /\ \A k \in 1..Len(attempts) : AttemptFailed(attempts[k]))
    => /\ Len(attempts) = Max(1, inst.retry)
       /\ ~execResult.success

\* An attempt failed for the retry runner: fn() rejected.
Rejected(label) ==
    label \notin {"returned", "returned true", "returned false", "returned after timeout"}

\* The sleeps of a run whose n attempts all failed and which made the
\* pre-delay d: the pre-delay if any, then one second after each attempt
\* but the last.
SleepsOfFailedRun(d, n) == (IF d > 0 THEN <<d>> ELSE <<>>) \o [k \in 1..(n - 1) |-> 1]

\* C30: in the retry runner a failed attempt that is not the last is followed
\* by one wait of 1 second and another attempt; the last failed attempt is
\* followed by no wait and its error is the one Execute reports; an attempt
\* that succeeds ends the loop, with no retry wait and no attempt after it;
\* a run whose attempts all failed made max(1, retry) - 1 such waits.
C30_RetryWaitsAndLastError ==
    /\ []((/\ execPc = "done"
           /\ attempts # <<>>
           /\ \A k \in 1..Len(attempts) : Rejected(attempts[k]))
          => /\ Len(attempts) = Max(1, inst.retry)
             /\ delays = SleepsOfFailedRun(inst.delay, Max(1, inst.retry)))
    /\ [][/\ execPc = "done" => (attempts' = attempts /\ delays' = delays)
          /\ attempts' # attempts =>
                LET i == Len(attempts')
                    m == attempts'[i]
                IN  /\ attempts' = Append(attempts, m)
                    /\ IF Rejected(m)
                       THEN IF i < Max(1, inst.retry)
                            THEN /\ delays' = Append(delays, 1)
                                 /\ execPc' = "body"
                            ELSE /\ delays' = delays
                                 /\ execPc' = "done"
                                 /\ ~execResult'.success
                                 /\ execResult'.error = m
                       ELSE /\ execPc' = "done"
                            /\ execResult'.error = NoError
                            /\ inst.kind # "wait" => delays' = delays]_vars

\* C30, its case: two attempts failed with different errors; one wait of a
\* second lies between them and the error reported is the second one.
C30_Witness ==
    /\ execPc = "done"
    /\ inst.retry = 2
    /\ Len(attempts) = 2
    /\ Rejected(attempts[1])
    /\ Rejected(attempts[2])
    /\ attempts[1] # attempts[2]
    /\ execResult.error = attempts[2]
    /\ delays = SleepsOfFailedRun(inst.delay, 2)

\* C33: Locate saves its element in the element registry exactly when the
\* resolution succeeded, and then reports success; in every other step of a
\* Locate the registry stays as it was, and a Locate that ends without a
\* successful resolution reports a failure.
C33_LocateRegistersOnSuccess ==
    [][inst.kind = "locate" =>
          LET resolved == /\ attempts' # attempts
                          /\ attempts'[Len(attempts')] = "returned true"
          IN  IF resolved
              THEN /\ registry' = registry \cup {inst.element}
                   /\ execPc' = "done"
                   /\ execResult'.success
              ELSE /\ registry' = registry
                   /\ execPc' = "done" => ~execResult'.success]_vars

\* C33, its case: a Locate whose element did not resolve has ended, and the
\* registry is still empty.
C33_Witness ==
    /\ inst.kind = "locate"
    /\ execPc = "done"
    /\ attempts = <<"returned false">>
    /\ ~execResult.success
    /\ registry = {}

\* C7: Execute completes with one ExecutionResult whose instructionID is the
\* instruction's id, and every failure is a result with success = false
\* that carries an error string.
C7_FailureCarriesError ==
    execPc = "done"
    => /\ execResult.instructionID = inst.id
       /\ (~execResult.success => execResult.error # NoError)

MissingRequiredField(i) ==
    \/ i.type = ""
    \/ i.id = ""
    \/ i.kind = "navigate" /\ i.url = ""
    \/ i.kind \in {"click", "input_text"} /\ i.elementName = ""
    \/ i.kind = "wait" /\ (i.waitType = "" \/ ~i.valueDefined)

\* C8: an instruction missing a required field fails immediately: once
\* Execute has started, it has returned a failure result with no pre-delay,
\* no attempt of the body, nothing done to the page and no navigation.
C8_InvalidFailsImmediately ==
    (MissingRequiredField(inst) /\ execPc \notin {"ready", "idle"})
    => /\ execPc = "done"
       /\ ~execResult.success
       /\ delays = <<>>
       /\ attempts = <<>>
       /\ events = <<>>
       /\ location = "about:blank"

NetworkWaitDone ==
    execPc = "done" /\ inst.kind = "wait" /\ inst.waitType = "network"

\* C9, as stated: a Wait instruction in network mode never returns a
\* failure result.
C9_NetworkWaitNeverFails == NetworkWaitDone => execResult.success

\* C9, amended: a Wait instruction in network mode that passes validation
\* returns success, whatever the pending resources were at each poll and
\* at the timeout.
C9_ValidNetworkWaitSucceeds ==
    (NetworkWaitDone /\ Validate(inst)) => execResult.success

\* C9 witness: resources were pending at every poll until the timeout
\* elapsed, and the result is a success.
C9_Witness ==
    /\ NetworkWaitDone
    /\ attempts = <<"returned after timeout">>
    /\ clock >= inst.timeout * TicksPerSecond
    /\ execResult.success

MouseEvents == {"mousedown", "mouseup", "click", "dblclick"}

ExampleRect == [left |-> 10, top |-> 20, width |-> 100, height |-> 50]

\* Every mouse event of a successful click carries the centre of the
\* bounding box plus the configured offset.
CentrePlusOffset ==
    (execPc = "done" /\ inst.kind = "click" /\ execResult.success)
    => \A k \in 1..Len(events) :
          events[k].type \in MouseEvents
          => /\ events[k].clientX2 = 2 * lastRect.left + lastRect.width + 2 * inst.offsetX
             /\ events[k].clientY2 = 2 * lastRect.top + lastRect.height + 2 * inst.offsetY

\* The mouse events of a successful click on the box {left 10, top 20,
\* width 100, height 50} with offset (5, 5) are at (x, y).
ExampleClickAt(x, y) ==
    (/\ execPc = "done" /\ inst.kind = "click" /\ execResult.success
     /\ lastRect = ExampleRect /\ inst.offsetX = 5 /\ inst.offsetY = 5)
    => \A k \in 1..Len(events) :
          events[k].type \in MouseEvents
          => (events[k].clientX2 = 2 * x /\ events[k].clientY2 = 2 * y)

\* C10, as stated: the click point is the centre of the bounding box plus
\* the configured offset; for the box {left 10, top 20, width 100,
\* height 50} and offset (5, 5) it is (65, 70).
C10_ClickPointAsStated == CentrePlusOffset /\ ExampleClickAt(65, 70)

\* C10, amended: the click point is the centre of the bounding box plus the
\* configured offset; for the box {left 10, top 20, width 100, height 50}
\* and offset (5, 5) it is (65, 50).
C10_ClickPoint == CentrePlusOffset /\ ExampleClickAt(65, 50)

\* C10 witness: a click on the example box with offset (5, 5) dispatched
\* its click event at (65, 50).
C10_Witness ==
    /\ execPc = "done"
    /\ inst.kind = "click"
    /\ execResult.success
    /\ lastRect = ExampleRect
    /\ inst.offsetX = 5
    /\ inst.offsetY = 5
    /\ \E k \in 1..Len(events) :
          events[k] = [type |-> "click", clientX2 |-> 2 * 65, clientY2 |-> 2 * 50]

TimeWaitDone ==
    execPc = "done" /\ inst.kind = "wait" /\ inst.waitType = "time"

\* C11: a Wait instruction in time mode with value N seconds (type and id
\* set) returns success, and the duration in its result is at least
\* N x 1000 ms, whatever the pre-delay is.
C11_WaitTimeDuration ==
    (TimeWaitDone /\ BaseValidate(inst) /\ inst.valueDefined)
    => /\ execResult.success
       /\ execResult.duration >= inst.value * TicksPerSecond

\* C11 witness: Wait(time, 2) with a pre-delay of 1 s has returned success
\* with a duration of at least 2000 ms.
C11_Witness ==
    /\ TimeWaitDone
    /\ inst.valueDefined /\ inst.value = 2 /\ inst.delay = 1
    /\ execResult.success
    /\ execResult.duration >= 2 * TicksPerSecond

\* C40: Delay(t) suspends once for t seconds when t > 0 and not at all
\* when t = 0, whatever the pre-delay of the instruction is: the sleeps of
\* a Wait in time mode with value N are the pre-delay, if positive, and
\* then N, if positive; Wait(time, 0) with pre-delay d sleeps d, not 2d.
C40_DelayIsExact ==
    (TimeWaitDone /\ BaseValidate(inst) /\ inst.valueDefined)
    => delays = (IF inst.delay > 0 THEN <<inst.delay>> ELSE <<>>)
                \o (IF inst.value > 0 THEN <<inst.value>> ELSE <<>>)

----------------------------------------------------------------------------
(* Executor: claims *)

\* The run in flight, or the run that returned last and whose results no
\* later executeInstruction has touched.
RunScope == loopPc = "awaiting" \/ (ret = "results" /\ singlePc = "idle")

NoSuccessfulNavigate(rs) ==
    \A i \in DOMAIN rs.items :
        ~(rs.items[i].success /\ instructions[i + 1].type = "navigate")

\* C2: in executeAll, once the navigate instruction at index k has produced a
\* successful result, results holds exactly k+1 entries and no instruction
\* with an index above k was executed.
C2_NavigateStopsRun ==
    \A k \in 0..(Len(instructions) - 1) :
        (/\ RunScope
         /\ k \in DOMAIN results.items
         /\ results.items[k].success
         /\ instructions[k + 1].type = "navigate")
        => /\ results.length = k + 1
           /\ loopPc = "idle"
           /\ \A j \in 1..Len(execLog) : execLog[j] <= k

\* [Navigate(success), Click]: the run has returned with the Navigate result
\* alone, Click never executed.
C2_Witness ==
    /\ loopPc = "idle" /\ singlePc = "idle" /\ ret = "results"
    /\ Len(instructions) = 2
    /\ instructions[1].type = "navigate"
    /\ instructions[2].type = "click"
    /\ results.length = 1
    /\ results.items[0].success
    /\ execLog = <<0>>

\* C4: getStatistics() always has success + failure = total, and
\* successRate = 0 when total = 0.
C4_StatisticsInvariant ==
    LET s == getStatistics(results)
    IN  /\ s.success + s.failure = s.total
        /\ (s.total = 0 => s.successRate[1] = 0)

\* C5: an executeAll run in which no pause/stop was requested (isRunning is
\* still set when the last instruction completes) and no navigate succeeded
\* returns with one result per instruction, results[i].instructionID =
\* instructions[i].id, every instruction executed once in list order; a
\* rejected execute() shows as a failure result.
C5_BatchRunsEveryInstruction ==
    [][(/\ loopPc = "awaiting"
        /\ loopPc' = "idle"
        /\ isRunning
        /\ NoSuccessfulNavigate(results'))
       => /\ results'.length = Len(instructions)
          /\ DOMAIN results'.items = 0..(Len(instructions) - 1)
          /\ \A i \in DOMAIN results'.items :
                /\ results'.items[i].instructionID = instructions[i + 1].id
                /\ (results'.items[i].error = "thrown" => ~results'.items[i].success)
          /\ execLog' = [j \in 1..Len(instructions) |-> j - 1]]_vars

\* A run of two instructions has returned: the first threw, the second ran.
C5_Witness ==
    /\ loopPc = "idle" /\ singlePc = "idle" /\ ret = "results"
    /\ interrupts = {}
    /\ Len(instructions) = 2
    /\ results.length = 2
    /\ DOMAIN results.items = {0, 1}
    /\ results.items[0].error = "thrown"
    /\ results.items[1].success
    /\ NoSuccessfulNavigate(results)
    /\ execLog = <<0, 1>>

\* C36: executeInstruction(i) with i in range invokes instruction i and no
\* other, puts its result in results[i], and leaves the other slots of
\* results (set or not), the instruction list and isRunning as they were;
\* with i out of range it answers null and changes nothing.
C36_SingleExecutionFrame ==
    [][/\ (singlePc = "idle" /\ singlePc' = "awaiting") =>
              /\ execLog' = <<singleIdx'>>
              /\ UNCHANGED <<instructions, results, isRunning>>
       /\ (singlePc = "awaiting" /\ singlePc' = "idle") =>
              /\ singleIdx \in DOMAIN results'.items
              /\ results'.items[singleIdx].instructionID = instructions[singleIdx + 1].id
              /\ \A j \in (DOMAIN results.items \cup DOMAIN results'.items) \ {singleIdx} :
                     /\ j \in DOMAIN results.items
                     /\ j \in DOMAIN results'.items
                     /\ results'.items[j] = results.items[j]
              /\ execLog' = <<singleIdx>>
              /\ UNCHANGED <<instructions, isRunning>>
       /\ (ret' = "null" /\ ret # "null") =>
              /\ execLog' = <<>>
              /\ UNCHANGED <<instructions, results, isRunning, currentIndex>>]_vars

\* C36, its case: executeInstruction(1) has returned its result while slot 0
\* held a result of its own, which is still there.
C36_Witness ==
    /\ singlePc = "idle"
    /\ ret = "result"
    /\ execLog = <<1>>
    /\ DOMAIN results.items = {0, 1}
    /\ results.items[0].instructionID = instructions[1].id
    /\ results.items[1].instructionID = instructions[2].id
    /\ instructions[1].id # instructions[2].id

\* C6: when pause() or stop() was called while executeAll awaits instruction
\* i, the completion of instruction i appends its result, starts no further
\* instruction and returns with isRunning = FALSE; after stop, currentIndex
\* is 0 on return.
C6_InterruptAtBoundary ==
    [][(/\ loopPc = "awaiting"
        /\ interrupts # {}
        /\ results' # results)
       => /\ loopPc' = "idle"
          /\ results'.length = results.length + 1
          /\ results.length \in DOMAIN results'.items
          /\ results'.items[results.length].instructionID = instructions[loopI + 1].id
          /\ \A i \in DOMAIN results.items : results'.items[i] = results.items[i]
          /\ execLog' = execLog
          /\ isRunning' = FALSE
          /\ ("stop" \in interrupts => currentIndex' = 0)]_vars

\* stop() arrived while the first of two instructions was executing; the run
\* has returned with that one result and the second instruction not started.
C6_Witness ==
    /\ loopPc = "idle" /\ singlePc = "idle" /\ ret = "results"
    /\ "stop" \in interrupts
    /\ Len(instructions) = 2
    /\ results.length = 1
    /\ execLog = <<0>>
    /\ ~results.items[0].success
    /\ ~isRunning
    /\ currentIndex = 0

\* executeAll has returned because pause() interrupted it once instruction i
\* had completed, instructions being left to run.
PausedAfter(i) ==
    /\ CallerIdle /\ ret = "results"
    /\ interrupts = {"pause"}
    /\ results.length = i + 1
    /\ DOMAIN results.items = 0..i
    /\ execLog = [k \in 1..(i + 1) |-> k - 1]
    /\ i + 1 < Len(instructions)

\* An operation of the Executor that goes on with the run from instruction
\* i + 1 and keeps the results: the loop of a run entered at i + 1, or, when
\* i + 1 is the last instruction, that instruction executed alone.
ContinueRun(i) ==
    /\ ExecutorNext
    /\ results' = results
    /\ \/ loopPc' = "awaiting" /\ loopI' = i + 1
       \/ /\ i + 1 = Len(instructions) - 1
          /\ singlePc' = "awaiting" /\ singleIdx' = i + 1

\* C19: after pause() has interrupted executeAll once instruction i has
\* completed, some operation continues the run from instruction i + 1 with
\* the results of instructions 0..i kept.
C19_PauseThenResume ==
    \A i \in 0..(Len(instructions) - 2) : PausedAfter(i) => ENABLED ContinueRun(i)

\* A run of three instructions, none of them a navigation.
ThreeClicks == [k \in {1, 2, 3} |-> [type |-> "click", id |-> "a"]]

SpecResumeInit ==
    /\ instructions = ThreeClicks
    /\ results = EmptyArray
    /\ isRunning = FALSE
    /\ currentIndex = 0
    /\ loopPc = "idle"
    /\ loopI = 0
    /\ singlePc = "idle"
    /\ singleIdx = 0
    /\ execLog = <<>>
    /\ ret = "none"
    /\ interrupts = {}
    /\ QueueInit
    /\ CatalogIdle

SpecResume == SpecResumeInit /\ [][ExecutorNext]_vars


SpecExecutorInit == ExecutorInit /\ QueueInit /\ CatalogIdle

SpecExecutor == SpecExecutorInit /\ [][ExecutorNext]_vars

----------------------------------------------------------------------------
(* Instruction catalog: WaitInstruction.Execute, cases 'element',           *)
(* 'visible', 'condition' and 'function'.  Each is the loop                 *)
(* `while (Date.now() - startTime < maxWaitTime) { evaluate; sleep 100 ms }`*)
(* followed by a throw; maxWaitTime is this.timeout * 1000, NaN when the    *)
(* config gave no timeout.                                                  *)

PollModes == {"element", "visible", "condition", "function"}

\* What one evaluation can answer: the predicates of 'condition' and
\* 'function' may throw, the element checks may not.
PollAnswers(mode) ==
    IF mode \in {"condition", "function"} THEN {"true", "false", "throws"}
    ELSE {"true", "false"}

\* A Wait of a polling mode, with a value of the type its mode asks for and
\* a timeout of 0 or 1 second, or none.
PollingWaitInstruction ==
    {[b EXCEPT !.waitType = m, !.valueDefined = TRUE, !.timeout = t[2],
               !.timeoutDefined = t[1]] :
        b \in BaseInstructionMembers("wait", {FALSE}), m \in PollModes,
        t \in {<<FALSE, 0>>, <<TRUE, 0>>, <<TRUE, 1>>}}

\* `Date.now() - startTime < maxWaitTime`; a comparison with NaN is false.
WithinMaxWaitTime(i, waited) == i.timeoutDefined /\ waited < i.timeout * TicksPerSecond

PollFrame ==
    UNCHANGED <<executorVars, queueVars, registryVars, raceVars, cycleVars, messagingVars,
                drainVars, visibleWait, descriptor, manager, drag, parser>>

\* One turn of the loop, or its end.  Inside the loop: one evaluation; a
\* true answer returns { success: true } to the retry runner, which returns
\* it; any other answer, a throw included, is followed by the sleep.  Past
\* the loop: the throw, which the retry runner answers as BodyThrows does.
WaitPoll(answer) ==
    /\ execPc = "body"
    /\ inst.kind = "wait"
    /\ inst.waitType \in PollModes
    /\ answer \in PollAnswers(inst.waitType)
    /\ IF WithinMaxWaitTime(inst, elapsed)
       THEN /\ polling' = [evaluations |-> polling.evaluations + 1,
                           threw |-> polling.threw \/ answer = "throws",
                           sawTrue |-> answer = "true"]
            /\ IF answer = "true"
               THEN /\ attempts' = Append(attempts, "returned")
                    /\ execPc' = "done"
                    /\ execResult' = SuccessResult(TRUE, clock)
                    /\ elapsed' = 0
                    /\ UNCHANGED clock
               ELSE /\ elapsed' = elapsed + PollTicks
                    /\ clock' = clock + PollTicks
                    /\ UNCHANGED <<attempts, execPc, execResult>>
            /\ UNCHANGED delays
       ELSE LET i == Len(attempts) + 1
                retrying == i < maxAttempts(inst.retry)
                ds == IF retrying THEN Delay(RetryWait) ELSE <<>>
                now == clock + TicksOf(ds)
            IN  /\ attempts' = Append(attempts, "wait timed out")
                /\ delays' = delays \o ds
                /\ clock' = now
                /\ elapsed' = 0
                /\ IF retrying
                   THEN /\ execPc' = "body"
                        /\ UNCHANGED execResult
                   ELSE /\ execPc' = "done"
                        /\ execResult' = FailureResult("wait timed out", now)
                /\ UNCHANGED polling
    /\ UNCHANGED <<inst, events, location, registry, lastRect>>
    /\ PollFrame

PollNext ==
    \/ Execute
    \/ \E answer \in {"true", "false", "throws"} : WaitPoll(answer)

SpecPollInit ==
    /\ ExecutorIdle
    /\ QueueInit
    /\ inst \in PollingWaitInstruction
    /\ registry = {}
    /\ execPc = "ready"
    /\ attempts = <<>>
    /\ delays = <<>>
    /\ clock = 0
    /\ elapsed = 0
    /\ events = <<>>
    /\ location = "about:blank"
    /\ lastRect = NoRect
    /\ execResult = NoResult

SpecPoll == SpecPollInit /\ [][PollNext]_vars

\* C32: a Wait of a polling mode returns success exactly when an evaluation
\* of its condition answered true (a throw is not an answer and polling goes
\* on), and it reports no timeout before it has evaluated the condition
\* once, whatever timeoutSeconds is.
C32_PolledBeforeTimeout ==
    (execPc = "done" /\ Validate(inst))
    => /\ execResult.success <=> polling.sawTrue
       /\ ~execResult.success => polling.evaluations >= 1

----------------------------------------------------------------------------
(* Instruction catalog: WaitForElementVisible(element, elementName,         *)
(* timeout).  The promise executor sets an interval of 100 ms (checkVisible)*)
(* and a timeout of timeout * 1000 ms; both callbacks share the flag        *)
(* isResolved.  Time is counted in polling intervals.  When a poll and the  *)
(* timeout are due together they run in either order.                       *)

WaitTimeouts == {0, 1, 2}

VisibleFrame == UNCHANGED nonPageVars /\ UNCHANGED <<polling, descriptor, manager, drag, parser>>

\* The promise executor: both timers are set.
WaitForElementVisible(timeout) ==
    /\ visibleWait.pc = "idle"
    /\ visibleWait' = [NoVisibleWait EXCEPT !.pc = "pending", !.timeout = timeout,
                                            !.interval = TRUE, !.timer = TRUE]
    /\ VisibleFrame

\* The interval callback, 100 ms after the one before it: RefreshDom,
\* IsVisible, and on the first visible answer clearInterval and resolve.
checkVisible(visible) ==
    /\ visibleWait.interval
    /\ visibleWait.timer => visibleWait.now + PollTicks <= visibleWait.timeout * TicksPerSecond
    /\ LET settling == visible /\ ~visibleWait.isResolved
       IN  visibleWait' =
               [visibleWait EXCEPT
                   !.now = @ + PollTicks,
                   !.polls = @ + 1,
                   !.isResolved = @ \/ settling,
                   !.interval = ~settling,
                   !.pc = IF settling THEN "resolved" ELSE @,
                   !.settles = IF settling THEN Append(@, "resolve") ELSE @,
                   !.last = [by |-> "poll", visible |-> visible]]
    /\ VisibleFrame

timeoutCallbackUnguarded(visible) ==
    /\ visibleWait.timer
    /\ visibleWait.interval =>
           visibleWait.now + PollTicks >= visibleWait.timeout * TicksPerSecond
    /\ visibleWait' =
           [visibleWait EXCEPT
               !.now = Max(@, visibleWait.timeout * TicksPerSecond),
               !.timer = FALSE,
               !.isResolved = TRUE,
               !.interval = FALSE,
               !.pc = IF visible THEN "resolved" ELSE "rejected",
               !.settles = Append(@, IF visible THEN "resolve" ELSE "reject"),
               !.last = [by |-> "timeout", visible |-> visible]]
    /\ VisibleFrame

\* The timeout callback, timeout * 1000 ms after the call: if nothing has
\* settled yet, clearInterval, RefreshDom, one more IsVisible, and resolve
\* or reject by its answer.
timeoutCallback(visible) ==
    /\ visibleWait.timer
    /\ visibleWait.interval =>
           visibleWait.now + PollTicks >= visibleWait.timeout * TicksPerSecond
    /\ LET settling == ~visibleWait.isResolved
       IN  visibleWait' =
               [visibleWait EXCEPT
                   !.now = Max(@, visibleWait.timeout * TicksPerSecond),
                   !.timer = FALSE,
                   !.isResolved = TRUE,
                   !.interval = IF settling THEN FALSE ELSE @,
                   !.pc = IF ~settling THEN @ ELSE IF visible THEN "resolved" ELSE "rejected",
                   !.settles = IF ~settling THEN @
                               ELSE Append(@, IF visible THEN "resolve" ELSE "reject"),
                   !.last = [by |-> "timeout", visible |-> visible]]
    /\ VisibleFrame

VisibleNext ==
    \/ \E timeout \in WaitTimeouts : WaitForElementVisible(timeout)
    \/ \E visible \in BOOLEAN : checkVisible(visible)
    \/ \E visible \in BOOLEAN : timeoutCallback(visible)

SpecVisibleInit == ExecutorIdle /\ QueueInit /\ CatalogIdle

SpecVisible == SpecVisibleInit /\ [][VisibleNext]_vars

\* C31: the visibility wait settles exactly once.  A poll that finds the
\* element visible settles it with success if nothing has settled it; the
\* timeout, if nothing has, settles it by one final check, at the time
\* timeoutSeconds; once settled the interval is cleared and no callback
\* settles it again.
C31_SettlesOnce ==
    /\ [](/\ Len(visibleWait.settles) <= 1
          /\ visibleWait.isResolved <=> visibleWait.settles # <<>>
          /\ visibleWait.isResolved => ~visibleWait.interval)
    /\ [][LET w == visibleWait
              by == visibleWait'.last.by
              seen == visibleWait'.last.visible
          IN  /\ w.isResolved => visibleWait'.settles = w.settles
              /\ (~w.isResolved /\ w.pc = "pending" /\ by = "poll") =>
                     visibleWait'.settles = IF seen THEN <<"resolve">> ELSE <<>>
              /\ (~w.isResolved /\ w.pc = "pending" /\ by = "timeout") =>
                     /\ visibleWait'.settles = IF seen THEN <<"resolve">> ELSE <<"reject">>
                     /\ visibleWait'.now = w.timeout * TicksPerSecond]_vars

\* C31, its case: a poll found the element visible and settled the wait, and
\* the timeout callback has run after it, finding the element hidden.
C31_Witness ==
    /\ visibleWait.settles = <<"resolve">>
    /\ visibleWait.polls > 1
    /\ ~visibleWait.timer
    /\ visibleWait.last = [by |-> "timeout", visible |-> FALSE]

----------------------------------------------------------------------------
(* Element: the cached handle `dom` of one descriptor.  Every method that   *)
(* needs the node resolves it with FindElement when `dom` is not set;       *)
(* Execute resolves it always.  The page answers a resolution with a node,  *)
(* with nothing, or with an exception (an invalid selector).                *)

SelectorTypes == {"css", "xpath", "id"}
Nodes == {"n1", "n2"}
Lookups == Nodes \cup {"nothing", "throws"}

\* `!this.dom`
Absent(dom) == dom \in {"undefined", "null"}

\* FindElement(): the handle it leaves.  querySelector and getElementById
\* answer null for no match and the xpath branch turns no node into
\* undefined; the catch block sets undefined.
FindElement(selectorType, lookup) ==
    CASE lookup = "throws"  -> "undefined"
      [] lookup = "nothing" -> IF selectorType = "xpath" THEN "undefined" ELSE "null"
      [] OTHER              -> lookup

ElementFrame == UNCHANGED nonPageVars /\ UNCHANGED <<visibleWait, polling, manager, drag, parser>>

\* `if (!this.dom) { this.FindElement(); }` at the top of op, with what is
\* recorded of it.
ResolveIfAbsent(op, dom, lookup) ==
    IF Absent(dom)
    THEN [descriptor EXCEPT
             !.dom = FindElement(descriptor.selectorType, lookup),
             !.last = [op |-> op, before |-> descriptor.dom,
                       resolution |-> IF lookup \in Nodes THEN "found" ELSE "failed",
                       match |-> lookup]]
    ELSE [descriptor EXCEPT
             !.dom = dom,
             !.last = [op |-> op, before |-> descriptor.dom, resolution |-> "none",
                       match |-> "undefined"]]

\* Validate, GetBoundingRect, IsVisible, ScrollIntoView, GetText: each
\* resolves the handle if it has none and then uses it.
ElementCall(op, lookup) ==
    /\ descriptor' = ResolveIfAbsent(op, descriptor.dom, lookup)
    /\ ElementFrame

RefreshDomKeepsHandle(lookup) ==
    /\ descriptor' = ResolveIfAbsent("RefreshDom", descriptor.dom, lookup)
    /\ ElementFrame

\* RefreshDom(): `this.dom = undefined; this.Validate();`
RefreshDom(lookup) ==
    /\ descriptor' = ResolveIfAbsent("RefreshDom", "undefined", lookup)
    /\ ElementFrame

\* Execute(): `return this.FindElement()`, whatever the handle is; every
\* branch of FindElement assigns it.
ElementExecute(lookup) ==
    /\ descriptor' = ResolveIfAbsent("Execute", "undefined", lookup)
    /\ ElementFrame

ElementOps == {"Validate", "GetBoundingRect", "IsVisible", "ScrollIntoView", "GetText"}

ElementNext ==
    \/ \E op \in ElementOps, lookup \in Lookups : ElementCall(op, lookup)
    \/ \E lookup \in Lookups : RefreshDom(lookup)
    \/ \E lookup \in Lookups : ElementExecute(lookup)

SpecElementInit ==
    /\ ExecutorIdle
    /\ CatalogIdle
    /\ storage = [k \in {} |-> <<>>]
    /\ response = NoResponse
    /\ dateNow = 0
    /\ connections = [t \in {} |-> 0]
    /\ inflight = NoInflight
    /\ trail = NoTrail
    /\ channel = NoRequest
    /\ DrainIdle
    /\ DispatchInit
    /\ visibleWait = NoVisibleWait
    /\ polling = NoPolling
    /\ descriptor \in {NewElement(t) : t \in SelectorTypes}
    /\ manager = NewManager
    /\ drag = NewDrag(0, FALSE, "")
    /\ parser = NewParser("src/types/Instructions.ts", <<>>)

SpecElement == SpecElementInit /\ [][ElementNext]_vars

\* C34: the cached handle is set only by a resolution that found a node;
\* RefreshDom (and Execute) never keeps the handle it found, it resolves
\* again and leaves what that resolution found; after a resolution that failed the handle is
\* absent.
C34_HandleFollowsResolution ==
    [][LET call == descriptor'.last
       IN  /\ (Absent(descriptor.dom) /\ ~Absent(descriptor'.dom)) =>
                  (call.resolution = "found" /\ descriptor'.dom = call.match)
           /\ call.op \in {"RefreshDom", "Execute"} =>
                  /\ call.resolution # "none"
                  /\ call.resolution = "found" => descriptor'.dom = call.match
           /\ call.resolution = "failed" => Absent(descriptor'.dom)]_vars

\* C34, its case: the handle was n1, RefreshDom resolved again and found
\* nothing: the handle is absent.
C34_Witness ==
    /\ descriptor.last = [op |-> "RefreshDom", before |-> "n1", resolution |-> "failed",
                          match |-> "nothing"]
    /\ Absent(descriptor.dom)

----------------------------------------------------------------------------
(* ElementManager: the map `elements` from name to descriptor.  A           *)
(* descriptor is an object the map holds by reference: `ref` tells the      *)
(* objects apart, and setElement / removeElement change the parentName,     *)
(* childrenNames and relatedNames of the objects in the map in place.       *)
(* An unset parentName is "", an unset list is the empty list.              *)

ElementNames == {"a", "b"}
NameLists == {<<>>} \cup {<<n>> : n \in ElementNames}

\* The descriptors that can be handed to setElement, before they are told
\* apart; one may have no name (setElement is also handed plain objects).
ElementObjects ==
    [ref : {0}, name : ElementNames \cup {""}, parentName : ElementNames \cup {""},
     childrenNames : NameLists, relatedNames : NameLists]

Includes(list, x) == \E k \in 1..Len(list) : list[k] = x

\* `i = list.indexOf(x); if (i > -1) list.splice(i, 1)`
SpliceFirst(list, x) ==
    IF ~Includes(list, x) THEN list
    ELSE LET i == CHOOSE k \in 1..Len(list) :
                      list[k] = x /\ \A j \in 1..(k - 1) : list[j] # x
         IN  SubSeq(list, 1, i - 1) \o SubSeq(list, i + 1, Len(list))

\* `if (!list.includes(x)) list.push(x)`
PushIfMissing(list, x) == IF Includes(list, x) THEN list ELSE Append(list, x)

cleanupReferences(elements, removedName) ==
    [n \in DOMAIN elements |->
        [elements[n] EXCEPT !.childrenNames = SpliceFirst(@, removedName),
                            !.relatedNames = SpliceFirst(@, removedName)]]

\* updateRelationships(element), element being elements[name]: the parent
\* gets the name among its children, each child that is in the map gets the
\* name as its parentName, each related element gets the name among its
\* related names.
updateRelationships(elements, name) ==
    LET parentName == elements[name].parentName
        withParent ==
            IF parentName # "" /\ parentName \in DOMAIN elements
            THEN [elements EXCEPT ![parentName].childrenNames = PushIfMissing(@, name)]
            ELSE elements
        withChildren ==
            [n \in DOMAIN withParent |->
                IF Includes(withParent[name].childrenNames, n)
                THEN [withParent[n] EXCEPT !.parentName = name]
                ELSE withParent[n]]
    IN  [n \in DOMAIN withChildren |->
            IF Includes(withChildren[name].relatedNames, n)
            THEN [withChildren[n] EXCEPT !.relatedNames = PushIfMissing(@, name)]
            ELSE withChildren[n]]

ManagerFrame == UNCHANGED nonPageVars /\ UNCHANGED <<visibleWait, polling, descriptor, drag, parser>>

setElementKeepsFirst(given) ==
    /\ manager.made < MaxElements
    /\ LET element == [given EXCEPT !.ref = manager.made + 1] IN manager' =
          [manager EXCEPT
              !.made = @ + 1,
              !.last = [op |-> "setElement", name |-> element.name,
                        known |-> element.name \in DOMAIN manager.elements],
              !.elements =
                  IF element.name = "" \/ element.name \in DOMAIN manager.elements THEN @
                  ELSE updateRelationships((element.name :> element) @@ @, element.name),
              !.latest = IF element.name = "" THEN @
                         ELSE (element.name :> element.ref) @@ @,
              !.removed = @ \ {element.name}]
    /\ ManagerFrame

\* setElement(element), element being the object `given` with its number:
\* nothing without a name; else the references to an
\* element of that name are cleaned, the element is stored under its name
\* and the relationships are updated.
setElement(given) ==
    /\ manager.made < MaxElements
    /\ LET element == [given EXCEPT !.ref = manager.made + 1] IN manager' =
          [manager EXCEPT
              !.made = @ + 1,
              !.last = [op |-> "setElement", name |-> element.name,
                        known |-> element.name \in DOMAIN manager.elements],
              !.elements =
                  IF element.name = "" THEN @
                  ELSE LET cleaned == IF element.name \in DOMAIN @
                                      THEN cleanupReferences(@, element.name)
                                      ELSE @
                       IN  updateRelationships((element.name :> element) @@ cleaned,
                                               element.name),
              !.latest = IF element.name = "" THEN @
                         ELSE (element.name :> element.ref) @@ @,
              !.removed = @ \ {element.name}]
    /\ ManagerFrame

\* removeElement(name): false for a name that is not in the map; else the
\* entry is deleted and the references to it are cleaned.
removeElement(name) ==
    /\ manager' =
          [manager EXCEPT
              !.last = [op |-> "removeElement", name |-> name,
                        known |-> name \in DOMAIN manager.elements],
              !.elements =
                  IF name \notin DOMAIN @ THEN @
                  ELSE cleanupReferences([n \in (DOMAIN @) \ {name} |-> @[n]], name),
              !.latest = [n \in (DOMAIN @) \ {name} |-> @[n]],
              !.removed = IF name \in DOMAIN manager.elements THEN @ \cup {name} ELSE @]
    /\ ManagerFrame

ManagerNext ==
    \/ \E given \in ElementObjects : setElement(given)
    \/ \E name \in ElementNames : removeElement(name)

SpecManagerInit == ExecutorIdle /\ QueueInit /\ CatalogIdle

SpecManager == SpecManagerInit /\ [][ManagerNext]_vars

\* getElement(name): `this.elements.get(name)`; 0 stands for undefined.
getElement(name) ==
    IF name \in DOMAIN manager.elements THEN manager.elements[name].ref ELSE 0

\* C35: getElement(n) answers the descriptor handed to the most recent
\* setElement of name n that no removeElement(n) has followed, and nothing
\* otherwise; setElement of a descriptor without a name and removeElement of
\* a name that is not registered leave the registry as it was.
C35_LastWriteWins ==
    /\ [](\A n \in ElementNames :
             getElement(n) = IF n \in DOMAIN manager.latest THEN manager.latest[n] ELSE 0)
    /\ [][LET call == manager'.last
          IN  ((call.op = "setElement" /\ call.name = "") \/
               (call.op = "removeElement" /\ ~call.known))
              => manager'.elements = manager.elements]_vars

\* C35, its case: "a" was set, set again with another descriptor, and "b"
\* was set and removed; a removeElement of a name that is not registered
\* came last.
C35_Witness ==
    /\ manager.made = 3
    /\ getElement("a") = 2
    /\ getElement("b") = 0
    /\ "b" \in manager.removed
    /\ manager.last.op = "removeElement"
    /\ ~manager.last.known

\* C39: no descriptor in the registry refers to a name that was removed and
\* not set since, as its parent, among its children or among its related
\* names.
C39_NoReferenceToRemoved ==
    \A n \in manager.removed, m \in DOMAIN manager.elements :
        /\ manager.elements[m].parentName # n
        /\ ~Includes(manager.elements[m].childrenNames, n)
        /\ ~Includes(manager.elements[m].relatedNames, n)

\* ---------------------------------------------------------------------
\* DragInstruction.Execute: the body handed to ExecuteWithRetry.  Each
\* attempt looks the two elements up and checks them, saves the source's
\* draggable and user-select values, sets them, installs four capturing
\* listeners made for this attempt, and runs the drag protocol inside
\* `try { ... } finally { ... }`.
\* ---------------------------------------------------------------------

\* The steps of the protocol: mousedown, dragstart, the moves, dragenter,
\* the last dragover, mouseup, drop, dragend, click.
DragSteps == 9

DragRetries == 0..MaxRetry

\* The user-select values a page gives the source.
UserSelects == {"", "text"}

\* The four listeners of one attempt; the handlers are closures made by
\* that attempt, so listeners of two attempts are different listeners.
DragListeners(attempt) ==
    {[on |-> "destination", type |-> "dragover", attempt |-> attempt],
     [on |-> "destination", type |-> "dragenter", attempt |-> attempt],
     [on |-> "document", type |-> "dragover", attempt |-> attempt],
     [on |-> "document", type |-> "drop", attempt |-> attempt]}

DragFrame ==
    UNCHANGED nonPageVars /\ UNCHANGED <<visibleWait, polling, descriptor, manager, parser>>

\* Where the retry runner goes when the attempt in flight has thrown:
\* another attempt after Delay(1), or the rethrow.
AfterThrow(d) == IF d.attempt < maxAttempts(d.retry) THEN "retrying" ELSE "failed"

\* An attempt starts.  The lookups and the checks of the two elements come
\* first and may throw before anything is saved or installed; otherwise
\* the values are saved, the source is made draggable with user-select
\* none, and the four listeners are added.
DragSetup(found) ==
    /\ drag.pc \in {"idle", "retrying"}
    /\ LET attempt == drag.attempt + 1
           started == [drag EXCEPT !.attempt = attempt, !.step = 0]
       IN  drag' =
             IF found
             THEN [started EXCEPT
                      !.pc = "protocol",
                      !.saved = [draggable |-> drag.draggable,
                                 userSelect |-> drag.userSelect],
                      !.draggable = TRUE,
                      !.userSelect = "none",
                      !.listeners = drag.listeners \cup DragListeners(attempt),
                      !.installed = TRUE]
             ELSE [started EXCEPT !.pc = AfterThrow(started), !.installed = FALSE]
    /\ DragFrame

\* The finally block: the four removeEventListener calls with the handlers
\* and the capture flag of the attempt, and the two values written back.
DragFinally(d) ==
    [d EXCEPT !.listeners = d.listeners \ DragListeners(d.attempt),
              !.draggable = d.saved.draggable,
              !.userSelect = d.saved.userSelect]

\* A protocol with `try` and no `finally`: the cleanup follows the last
\* step only.
DragStepCleansOnSuccess(throws, touched) ==
    /\ drag.pc = "protocol"
    /\ LET handled == IF touched
                      THEN [drag EXCEPT !.draggable = FALSE, !.userSelect = "text"]
                      ELSE drag
       IN  drag' =
             IF throws
             THEN [handled EXCEPT !.pc = AfterThrow(drag)]
             ELSE IF drag.step + 1 = DragSteps
             THEN [DragFinally(handled) EXCEPT !.pc = "done", !.step = DragSteps]
             ELSE [handled EXCEPT !.step = drag.step + 1]
    /\ DragFrame

\* One step of the protocol: an event is built and dispatched, and the
\* page's own handlers run, which may write the source's attributes.  A
\* step that throws, and the last step, pass through the finally block.
DragStep(throws, touched) ==
    /\ drag.pc = "protocol"
    /\ LET handled == IF touched
                      THEN [drag EXCEPT !.draggable = FALSE, !.userSelect = "text"]
                      ELSE drag
       IN  drag' =
             IF throws
             THEN [DragFinally(handled) EXCEPT !.pc = AfterThrow(drag)]
             ELSE IF drag.step + 1 = DragSteps
             THEN [DragFinally(handled) EXCEPT !.pc = "done", !.step = DragSteps]
             ELSE [handled EXCEPT !.step = drag.step + 1]
    /\ DragFrame

DragNext ==
    \/ \E found \in BOOLEAN : DragSetup(found)
    \/ \E throws \in BOOLEAN, touched \in BOOLEAN : DragStep(throws, touched)

SpecDragInit ==
    /\ ExecutorIdle
    /\ CatalogIdle
    /\ storage = [k \in {} |-> <<>>]
    /\ response = NoResponse
    /\ dateNow = 0
    /\ connections = [t \in {} |-> 0]
    /\ inflight = NoInflight
    /\ trail = NoTrail
    /\ channel = NoRequest
    /\ DrainIdle
    /\ DispatchInit
    /\ visibleWait = NoVisibleWait
    /\ polling = NoPolling
    /\ descriptor = NewElement("css")
    /\ manager = NewManager
    /\ drag \in {NewDrag(r, d, u) : r \in DragRetries, d \in BOOLEAN, u \in UserSelects}
    /\ parser = NewParser("src/types/Instructions.ts", <<>>)

SpecDrag == SpecDragInit /\ [][DragNext]_vars

\* C37: when an attempt that installed its listeners or changed the source's
\* attributes ends, by its last step or by an error at any step, on the
\* first attempt and on every retry, the four listeners of the attempt
\* are gone and draggable and user-select are what they were before the
\* attempt; and outside the protocol no listener of any attempt is left.
C37_CleanupOnEveryExit ==
    /\ [](drag.pc # "protocol" => drag.listeners = {})
    /\ [][(drag.pc = "protocol" /\ drag'.pc # "protocol")
          => /\ drag'.listeners \cap DragListeners(drag.attempt) = {}
             /\ drag'.draggable = drag.saved.draggable
             /\ drag'.userSelect = drag.saved.userSelect]_vars

\* C37, its case: the second attempt of a Drag was ended by an error in the
\* middle of the protocol, on a source whose values differ from the ones
\* the attempt sets.
C37_Witness ==
    /\ drag.pc = "failed"
    /\ drag.attempt = 2
    /\ drag.installed
    /\ drag.step \in 1..(DragSteps - 1)
    /\ drag.listeners = {}
    /\ ~drag.draggable
    /\ drag.userSelect = "text"

\* ---------------------------------------------------------------------
\* InstructionParser (core/Parser.ts) and the instruction classes it is
\* used with.  Two modules of instruction classes exist: the one Parser.ts
\* imports, types/Instructions.ts, whose constructors fix the type tag and
\* fill defaults and which has no ToObject; and the one bundled in
\* entrypoints/background.ts, whose constructors copy the configuration,
\* type tag included, which has ToObject and its own INSTRUCTION_MAP.
\* ---------------------------------------------------------------------

InstructionClasses ==
    {"NavigateInstruction", "LocateElementInstruction", "ClickInstruction",
     "DragInstruction", "InputTextInstruction", "KeyPressInstruction",
     "WaitInstruction", "GetTextInstruction"}

ClassModules == {"src/types/Instructions.ts", "entrypoints/background.ts"}

\* The type tag the constructors of types/Instructions.ts pass to super().
TagOfTypes(class) ==
    CASE class = "NavigateInstruction" -> "navigate"
      [] class = "LocateElementInstruction" -> "locate_element"
      [] class = "ClickInstruction" -> "click"
      [] class = "DragInstruction" -> "drag"
      [] class = "InputTextInstruction" -> "input_text"
      [] class = "KeyPressInstruction" -> "key_press"
      [] class = "WaitInstruction" -> "wait"
      [] class = "GetTextInstruction" -> "get_text"

\* INSTRUCTION_MAP of the bundled classes, read from class to key: the
\* type tag a caller gives an instruction of that class.
TagOfBundle(class) ==
    IF class = "LocateElementInstruction" THEN "locate" ELSE TagOfTypes(class)

\* INSTRUCTION_MAP of Parser.ts: type tag -> class; "undefined" for a tag
\* that is not a key.
ParserClassOf(type) ==
    IF \E c \in InstructionClasses : TagOfTypes(c) = type
    THEN CHOOSE c \in InstructionClasses : TagOfTypes(c) = type
    ELSE "undefined"

\* The type-specific payload: one required field (a string, an element
\* description, a number, or for Wait possibly a function) and one optional
\* number for which the constructors have a default (`config.duration || 1`).
PayloadKinds(class) ==
    CASE class = "WaitInstruction" -> {"number", "function"}
      [] class = "LocateElementInstruction" -> {"element"}
      [] OTHER -> {"string"}

\* The configurations handed to the constructors.
InstructionConfigs ==
    {[class |-> c, id |-> "i", delay |-> 0, retry |-> 0, timeout |-> t,
      waitVisible |-> FALSE, payload |-> k, option |-> o] :
        c \in InstructionClasses, t \in {0, 30}, k \in {"string", "element", "number", "function"},
        o \in {0, 2}}

ValidConfigs == {c \in InstructionConfigs : c.payload \in PayloadKinds(c.class)}

\* `x || d` on numbers.
OrDefault(x, d) == IF x # 0 THEN x ELSE d

\* `new Class(config)` in either module.  `data` is a configuration or a
\* parsed document entry; `type` is read from it by the bundled classes
\* only.
Construct(module, class, data) ==
    IF module = "src/types/Instructions.ts"
    THEN [class |-> class, type |-> TagOfTypes(class), id |-> data.id,
          delay |-> OrDefault(data.delay, 0), retry |-> OrDefault(data.retry, 0),
          timeout |-> OrDefault(data.timeout, 30), waitVisible |-> data.waitVisible,
          payload |-> data.payload, option |-> OrDefault(data.option, 1),
          hasToObject |-> FALSE]
    ELSE [class |-> class, type |-> data.type, id |-> data.id,
          delay |-> data.delay, retry |-> data.retry,
          timeout |-> data.timeout, waitVisible |-> data.waitVisible,
          payload |-> data.payload, option |-> OrDefault(data.option, 1),
          hasToObject |-> TRUE]

\* What a caller builds: in the bundle the caller gives the type tag.
Built(module, config) ==
    Construct(module, config.class,
              [type |-> TagOfBundle(config.class), id |-> config.id, delay |-> config.delay,
               retry |-> config.retry, timeout |-> config.timeout,
               waitVisible |-> config.waitVisible, payload |-> config.payload,
               option |-> config.option])

RECURSIVE InstructionLists(_)
InstructionLists(n) ==
    IF n = 0 THEN {<<>>}
    ELSE LET shorter == InstructionLists(n - 1)
         IN  shorter \cup {Append(l, c) : l \in {x \in shorter : Len(x) = n - 1},
                                          c \in ValidConfigs}

\* ToObject() followed by JSON.stringify: the entry of the document.  A
\* property whose value is a function is left out, and reads back as
\* undefined.
Stringified(i) ==
    [type |-> i.type, id |-> i.id, delay |-> i.delay, retry |-> i.retry,
     timeout |-> i.timeout, waitVisible |-> i.waitVisible,
     payload |-> IF i.payload = "function" THEN "undefined" ELSE i.payload,
     option |-> i.option]

ParserFrame ==
    UNCHANGED nonPageVars /\ UNCHANGED <<visibleWait, polling, descriptor, manager, drag>>

\* serializeToJSON(instructions): `instructions.map(i => i.ToObject())`
\* throws a TypeError at the first instruction that has no ToObject.
serializeToJSON ==
    /\ parser.pc = "built"
    /\ parser' =
         IF \E k \in DOMAIN parser.original : ~parser.original[k].hasToObject
         THEN [parser EXCEPT !.pc = "threw", !.error = "ToObject is not a function"]
         ELSE [parser EXCEPT !.pc = "serialized",
                             !.document = [k \in DOMAIN parser.original |->
                                              Stringified(parser.original[k])]]
    /\ ParserFrame

\* parseFromJSON(document): each entry is looked up in INSTRUCTION_MAP by
\* its type and constructed; an unknown type throws.
parseFromJSON ==
    /\ parser.pc = "serialized"
    /\ parser' =
         IF \E k \in DOMAIN parser.document : ParserClassOf(parser.document[k].type) = "undefined"
         THEN [parser EXCEPT !.pc = "threw", !.error = "unknown instruction type"]
         ELSE [parser EXCEPT
                  !.pc = "parsed",
                  !.parsed = [k \in DOMAIN parser.document |->
                                 Construct(parser.module,
                                           ParserClassOf(parser.document[k].type),
                                           parser.document[k])]]
    /\ ParserFrame

ParserNext == serializeToJSON \/ parseFromJSON

SpecParserInit ==
    /\ ExecutorIdle
    /\ CatalogIdle
    /\ storage = [k \in {} |-> <<>>]
    /\ response = NoResponse
    /\ dateNow = 0
    /\ connections = [t \in {} |-> 0]
    /\ inflight = NoInflight
    /\ trail = NoTrail
    /\ channel = NoRequest
    /\ DrainIdle
    /\ DispatchInit
    /\ visibleWait = NoVisibleWait
    /\ polling = NoPolling
    /\ descriptor = NewElement("css")
    /\ manager = NewManager
    /\ drag = NewDrag(0, FALSE, "")
    /\ parser \in {NewParser(m, [k \in DOMAIN l |-> Built(m, l[k])]) :
                     m \in ClassModules, l \in InstructionLists(MaxInstructions)}

SpecParser == SpecParserInit /\ [][ParserNext]_vars

\* The fields the round trip is to keep.
SameInstruction(a, b) ==
    /\ a.type = b.type
    /\ a.id = b.id
    /\ a.delay = b.delay
    /\ a.retry = b.retry
    /\ a.timeout = b.timeout
    /\ a.waitVisible = b.waitVisible
    /\ a.payload = b.payload
    /\ a.option = b.option

\* C38: serializing a list of instructions of the eight catalog types and
\* parsing the document never throws, and the parsed list has the length
\* and the order of the original, each instruction with the type tag, id,
\* delay, retry, timeout, waitVisible and payload of the original.
C38_RoundTrip ==
    /\ parser.pc # "threw"
    /\ parser.pc = "parsed" =>
         /\ Len(parser.parsed) = Len(parser.original)
         /\ \A k \in DOMAIN parser.original :
              SameInstruction(parser.parsed[k], parser.original[k])

====
